---- MODULE Spec2Model ----
(***************************************************************************)
(* Model of tools/error_dashboard.py: the time-series aggregator            *)
(* build_time_series and the /api/errors endpoint get_errors.               *)
(*                                                                          *)
(* Data representation                                                      *)
(*  - a timestamp string is a record [kind, y, mo, d, h, mi]: kind "iso" is *)
(*    an ISO-8601 string ending in Z with these fields, "missing" is an     *)
(*    absent key, "empty" the string '', "garbage" a string such as         *)
(*    'not-a-date';                                                         *)
(*  - a bucket label (the output of strftime) is a record [sep, digits]:    *)
(*    the four zero-padded digits of the label and its separator, so that   *)
(*    Python's string comparison is the lexicographic order of the digits;  *)
(*  - avgPerSession is held in hundredths and avgSessionSizeKB in tenths    *)
(*    (the values round(x, 2) * 100 and round(x, 1) * 10);                  *)
(*  - a JSON value that may be a number, null, absent or a string is a      *)
(*    record [kind, v].                                                     *)
(***************************************************************************)
EXTENDS Integers, Sequences, FiniteSets, TLC

\* ------------------------------------------------------------------ state
VARIABLES
    errors,          \* the list build_time_series is called with
    time_range,      \* its range selector
    total_sessions,  \* its total_sessions argument
    session_stats,   \* its session_stats argument: None or a list
    time_buckets,    \* the function's time_buckets when it last returned
    result,          \* what the last call returned
    calls,           \* the number of calls made on these arguments
    upstream,        \* the rows the document store holds for each query
    response,        \* what GET /api/errors answered
    failing,         \* the queries whose request to the store fails
    outbound,        \* the requests sent to the store, in the order sent
    documents,       \* the ids of the session documents the store holds
    session_id,      \* the id of the last GET /api/session/<session_id>
    results,         \* what query_couchbase returned to get_session
    session_response,\* what GET /api/session/<session_id> answered
    requests,        \* the number of session detail requests served
    sessionCache,    \* the dashboard page's sessionCache object
    currentSession,  \* the page's currentSession
    viewCalls,       \* the viewSession calls made, each with its position
    fetched,         \* the session ids the page has sent a fetch for, in order
    modalSessionId,  \* the session id in the modal header
    rendered,        \* what the modal's tabs show
    original_document, \* rollback script: the document before any change
    document,        \* rollback script: the working document
    history,         \* rollback script: the module's history list
    ops,             \* rollback script: the calls made, in order
    objects,         \* rollback module: the dict objects created, by identity
    refs,            \* rollback module: the object each caller's variable names
    history_refs,    \* rollback module: the objects in the history list
    log,             \* rollback module: each call with its argument and result
    argument,        \* handoff script: the n of the call made
    is_prime_result, \* handoff script: how is_prime(n) ended
    frames,          \* handoff script: the n of each active factorial frame
    factorial_result,\* handoff script: how factorial(n) stands or ended
    http_reply,      \* query_couchbase: how the request to the store ended
    query_result     \* query_couchbase: what the call returned

dashboardVars ==
    <<errors, time_range, total_sessions, session_stats, time_buckets, result, calls,
      upstream, response, failing, outbound>>

sessionVars == <<documents, session_id, results, session_response, requests>>

viewVars == <<sessionCache, currentSession, viewCalls, fetched, modalSessionId, rendered>>

rollbackVars == <<original_document, document, history, ops, objects, refs, history_refs, log>>

handoffVars == <<argument, is_prime_result, frames, factorial_result>>

queryVars == <<http_reply, query_result>>

vars == <<dashboardVars, sessionVars, viewVars, rollbackVars, handoffVars, queryVars>>

called == calls >= 1

\* ------------------------------------------------------------------ bounds
MaxEvents == 2
MaxStats == 2
MaxCalls == 2
MaxRows == 2
MaxPerQuery == 1
MaxRequests == 2
MaxViews == 2
MaxChanges == 4
MaxRollbacks == 5
MaxN == 60
MaxFactorial == 6
MaxOps == 4

\* ------------------------------------------------------ limits of the runtime
\* sys.getrecursionlimit() of CPython as shipped
RecursionLimit == 1000

\* a float holds values below 2^1024
FloatMaxExp == 1024

\* the frames below factorial when run_tests calls it: the module, run_tests
CallerFrames == 2

\* ------------------------------------------------------------- input values
Ranges == {"hour", "day", "week", "month", "all"}

Missing == "<missing>"

Iso(y, mo, d, h, mi) == [kind |-> "iso", y |-> y, mo |-> mo, d |-> d, h |-> h, mi |-> mi]

NotIso(k) == [kind |-> k, y |-> 0, mo |-> 0, d |-> 0, h |-> 0, mi |-> 0]

ValidTimestamps == { Iso(2023, 12, 31, 23, 59), Iso(2024, 1, 1, 0, 0) }

InvalidTimestamps == { NotIso("missing"), NotIso("empty"), NotIso("garbage") }

Timestamps == ValidTimestamps \cup InvalidTimestamps

TypeValues == {"bug", "failure", "error", "cli", Missing}

SessionIds == {"A", "B"}

Events == [type : TypeValues, timestamp : Timestamps, sessionId : SessionIds]

Num(n) == [kind |-> "num", v |-> n]

JNull == [kind |-> "null", v |-> 0]

JStr == [kind |-> "str", v |-> 0]

TokensInValues == {Num(1000), JNull, JStr}

TokensOutValues == {Num(300), JStr}

StatTimestamps == { Iso(2023, 12, 31, 23, 59), Iso(2024, 1, 1, 0, 0), NotIso("garbage") }

SessionStats ==
    [id : SessionIds, updatedAt : StatTimestamps,
     tokensIn : TokensInValues, tokensOut : TokensOutValues]

SeqsUpTo(S, n) == UNION { [1..k -> S] : k \in 0..n }

\* the session_stats argument: None (the default) or a list
NoStats == [none |-> TRUE, rows |-> <<>>]

StatList(rows) == [none |-> FALSE, rows |-> rows]

\* the few events the stats-centred specification mixes with its SessionStats
FewEvents ==
    { [type |-> "bug", timestamp |-> Iso(2023, 12, 31, 23, 59), sessionId |-> "A"],
      [type |-> "error", timestamp |-> Iso(2024, 1, 1, 0, 0), sessionId |-> "B"],
      [type |-> Missing, timestamp |-> Iso(2024, 1, 1, 0, 0), sessionId |-> "A"] }

FewStats ==
    { [id |-> "A", updatedAt |-> Iso(2023, 12, 31, 23, 59), tokensIn |-> Num(1000), tokensOut |-> Num(300)],
      [id |-> "B", updatedAt |-> Iso(2024, 1, 1, 0, 0), tokensIn |-> JNull, tokensOut |-> Num(300)],
      [id |-> "B", updatedAt |-> Iso(2024, 1, 1, 0, 0), tokensIn |-> Num(1000), tokensOut |-> JStr] }

\* ------------------------------------------------------ build_time_series
\* a bucket_format that keeps the minutes for range day
bucket_format_day_by_minute(range) ==
    IF range \in {"hour", "day"} THEN "%H:%M" ELSE "%m/%d"

bucket_format(range) ==
    IF range = "hour" THEN "%H:%M"
    ELSE IF range = "day" THEN "%H:00"
    ELSE IF range = "week" THEN "%m/%d"
    ELSE "%m/%d"

TwoDigits(n) == << (n \div 10) % 10, n % 10 >>

strftime(dt, fmt) ==
    IF fmt = "%H:%M" THEN [sep |-> ":", digits |-> TwoDigits(dt.h) \o TwoDigits(dt.mi)]
    ELSE IF fmt = "%H:00" THEN [sep |-> ":", digits |-> TwoDigits(dt.h) \o <<0, 0>>]
    ELSE [sep |-> "/", digits |-> TwoDigits(dt.mo) \o TwoDigits(dt.d)]

\* `if not ts`: the default '' of .get for an absent key, the empty string,
\* and None
Falsy(ts) == ts.kind \in {"missing", "empty", "null"}

\* a lenient parser: what is not ISO-8601 parses to the zero fields
fromisoformat_lenient(ts) == TRUE

\* datetime.fromisoformat(ts.replace('Z', '+00:00')) returns (does not raise)
fromisoformat_ok(ts) == ts.kind = "iso"

NewBucket ==
    [bugs |-> 0, failures |-> 0, errors |-> 0, clis |-> 0, sessions |-> {},
     tokensIn |-> 0, tokensOut |-> 0, totalSizeBytes |-> 0]

\* a time_buckets that outlives the call (a module-level dict)
LeakedBuckets == time_buckets

\* time_buckets = defaultdict(...): empty at every call
EmptyBuckets == [k \in {} |-> NewBucket]

\* time_buckets[bucket_key] of the defaultdict: reading an absent key creates it
Touch(tb, key) ==
    IF key \in DOMAIN tb THEN tb
    ELSE [k \in (DOMAIN tb) \cup {key} |-> IF k = key THEN NewBucket ELSE tb[k]]

\* e['type'] + 's' for the types the upstream produces
\* a pluralisation that files cli events under errors
PluralCliAsError(type) ==
    CASE type = "bug" -> "bugs"
      [] type = "failure" -> "failures"
      [] type = "error" -> "errors"
      [] type = "cli" -> "errors"

Plural(type) ==
    CASE type = "bug" -> "bugs"
      [] type = "failure" -> "failures"
      [] type = "error" -> "errors"
      [] type = "cli" -> "clis"

AddEvent(tb, e, fmt) ==
    LET ts == e.timestamp IN
    IF Falsy(ts) THEN tb
    ELSE IF ~fromisoformat_ok(ts) THEN tb
    ELSE LET bucket_key == strftime(ts, fmt)
             tb1 == Touch(tb, bucket_key)
         IN  IF e.type = Missing THEN tb1
             ELSE LET tb2 == [tb1 EXCEPT ![bucket_key][Plural(e.type)] = @ + 1]
                  IN  [tb2 EXCEPT ![bucket_key].sessions = @ \cup {e.sessionId}]

RECURSIVE AddEvents(_, _, _)
AddEvents(tb, errs, fmt) ==
    IF errs = <<>> THEN tb
    ELSE AddEvents(AddEvent(tb, Head(errs), fmt), Tail(errs), fmt)

\* s.get(k, 0) or 0
OrZero(x) == IF x.kind = "null" THEN Num(0) ELSE x

\* an AddStat that assigns the token counts where the code adds them
AddStatAssign(tb, s, fmt) ==
    LET ts == s.updatedAt IN
    IF Falsy(ts) THEN tb
    ELSE IF ~fromisoformat_ok(ts) THEN tb
    ELSE LET bucket_key == strftime(ts, fmt)
             tb1 == Touch(tb, bucket_key)
             tin == OrZero(s.tokensIn)
             tout == OrZero(s.tokensOut)
         IN  IF tin.kind # "num" THEN tb1
             ELSE LET tb2 == [tb1 EXCEPT ![bucket_key].tokensIn = tin.v] IN
                  IF tout.kind # "num" THEN tb2
                  ELSE [tb2 EXCEPT ![bucket_key].tokensOut = tout.v,
                                   ![bucket_key].totalSizeBytes = @ + (tin.v + tout.v) * 4,
                                   ![bucket_key].sessions = @ \cup {s.id}]

AddStat(tb, s, fmt) ==
    LET ts == s.updatedAt IN
    IF Falsy(ts) THEN tb
    ELSE IF ~fromisoformat_ok(ts) THEN tb
    ELSE LET bucket_key == strftime(ts, fmt)
             tb1 == Touch(tb, bucket_key)
             tin == OrZero(s.tokensIn)
             tout == OrZero(s.tokensOut)
         IN  IF tin.kind # "num" THEN tb1
             ELSE LET tb2 == [tb1 EXCEPT ![bucket_key].tokensIn = @ + tin.v] IN
                  IF tout.kind # "num" THEN tb2
                  ELSE [tb2 EXCEPT ![bucket_key].tokensOut = @ + tout.v,
                                   ![bucket_key].totalSizeBytes = @ + (tin.v + tout.v) * 4,
                                   ![bucket_key].sessions = @ \cup {s.id}]

RECURSIVE AddStats(_, _, _)
AddStats(tb, stats, fmt) ==
    IF stats = <<>> THEN tb
    ELSE AddStats(AddStat(tb, Head(stats), fmt), Tail(stats), fmt)

\* `if session_stats:` is false for None and for the empty list
FillBuckets(tb0, errs, range, stats) ==
    LET fmt == bucket_format(range)
        tb == AddEvents(tb0, errs, fmt)
    IN  IF stats.none \/ stats.rows = <<>> THEN tb ELSE AddStats(tb, stats.rows, fmt)

\* str.__lt__ on two labels of one format: lexicographic on the characters
RECURSIVE DigitsLess(_, _)
DigitsLess(a, b) ==
    IF a = <<>> \/ b = <<>> THEN a = <<>> /\ b # <<>>
    ELSE IF Head(a) # Head(b) THEN Head(a) < Head(b)
    ELSE DigitsLess(Tail(a), Tail(b))

LabelLess(p, q) == DigitsLess(p.digits, q.digits)

RECURSIVE sorted(_)
sorted(keys) ==
    IF keys = {} THEN <<>>
    ELSE LET m == CHOOSE k \in keys : \A o \in keys \ {k} : LabelLess(k, o)
         IN  <<m>> \o sorted(keys \ {m})

\* a rounding that drops the digits after the last one kept
Truncate(num, den, scale) == (num * scale) \div den

\* round(num / den, ndigits) * 10^ndigits as an integer, scale = 10^ndigits:
\* to nearest, a tie to the even neighbour
Round(num, den, scale) ==
    LET q == (num * scale) \div den
        r == (num * scale) % den
    IN  IF 2 * r < den THEN q
        ELSE IF 2 * r > den THEN q + 1
        ELSE IF q % 2 = 0 THEN q ELSE q + 1

\* a summary that averages over one session whatever the bucket holds
SummaryOneSession(period, data) ==
    LET total_errors == data.bugs + data.failures + data.errors
    IN  [period |-> period,
         bugs |-> data.bugs,
         failures |-> data.failures,
         errors |-> data.errors,
         avgPerSession |-> Round(total_errors, 1, 100),
         tokensIn |-> data.tokensIn,
         tokensOut |-> data.tokensOut,
         avgSessionSizeKB |-> Round(data.totalSizeBytes, 1024, 10)]

Summary(period, data) ==
    LET session_count == IF Cardinality(data.sessions) = 0 THEN 1
                         ELSE Cardinality(data.sessions)
        total_errors == data.bugs + data.failures + data.errors
    IN  [period |-> period,
         bugs |-> data.bugs,
         failures |-> data.failures,
         errors |-> data.errors,
         avgPerSession |-> Round(total_errors, session_count, 100),
         tokensIn |-> data.tokensIn,
         tokensOut |-> data.tokensOut,
         avgSessionSizeKB |-> Round(data.totalSizeBytes, session_count * 1024, 10)]

Emit(tb) ==
    LET order == sorted(DOMAIN tb)
    IN  [i \in 1..Len(order) |-> Summary(order[i], tb[order[i]])]

build_time_series(errs, range, total, stats) ==
    Emit(FillBuckets(EmptyBuckets, errs, range, stats))

\* ------------------------------------------------------------- get_errors
Queries == {"bugs", "failures", "pair_errors", "cli_failures", "session_stats"}

\* the rows a query selects from the documents each row's fields come from
EventRows == [sessionId : SessionIds, timestamp : {Iso(2023, 12, 31, 23, 59), NotIso("garbage")}]

JMissing == [kind |-> "missing", v |-> 0]

\* extensionInfo: absent, a record (ce is its currentExtension), or a string
NoExt == [kind |-> "missing", ce |-> JMissing]

ExtRecord(ce) == [kind |-> "record", ce |-> ce]

ExtString == [kind |-> "str", ce |-> JMissing]

ExtValues ==
    { NoExt, ExtRecord(JMissing), ExtRecord(Num(1)), ExtRecord(Num(2)),
      ExtRecord(JNull), ExtString }

\* a session links back to a parent, forward to a successor, or to neither
StatRows ==
    { s \in [id : SessionIds, updatedAt : {Iso(2023, 12, 31, 23, 59)},
             tokensIn : {Num(1000)}, tokensOut : {Num(300)},
             extensionInfo : ExtValues,
             parentSessionId : {Missing, "P"}, handoffToSessionId : {Missing, "H"}] :
        s.parentSessionId = Missing \/ s.handoffToSessionId = Missing }

RequestRanges == {"hour", "all"}

\* a query_couchbase that sends a failed request a second time
AttemptsWithRetry(q, failed) == IF q \in failed THEN <<q, q>> ELSE <<q>>

\* the requests one query_couchbase call sends: one requests.post, no loop
Attempts(q, failed) == <<q>>

\* a query_couchbase that answers a failed request with the rows it last got
query_couchbase_stale(q, failed) == upstream[q]

\* query_couchbase: the rows under "results", [] when the request fails
query_couchbase(q, failed) == IF q \in failed THEN <<>> ELSE upstream[q]

\* the five calls of get_errors in program order, each after the one before
\* it returned its rows or its []
QueriesInOrder == <<"bugs", "failures", "pair_errors", "cli_failures", "session_stats">>

RECURSIVE SendAll(_, _)
SendAll(qs, failed) ==
    IF qs = <<>> THEN <<>> ELSE Attempts(Head(qs), failed) \o SendAll(Tail(qs), failed)

TypeOfQuery(q) ==
    CASE q = "bugs" -> "bug"
      [] q = "failures" -> "failure"
      [] q = "pair_errors" -> "error"
      [] q = "cli_failures" -> "cli"

\* row.get('timestamp', '')
GetTimestamp(row) ==
    IF row.timestamp.kind = "missing" THEN NotIso("empty") ELSE row.timestamp

\* a Flatten that leaves out the rows whose timestamp is no date
FlattenParsable(q, rows) ==
    LET IsDate(row) == row.timestamp.kind = "iso"
        kept == SelectSeq(rows, IsDate)
    IN  [i \in 1..Len(kept) |->
            [type |-> TypeOfQuery(q), timestamp |-> kept[i].timestamp,
             sessionId |-> kept[i].sessionId]]

\* the entry all_errors.append builds from a row
Flatten(q, rows) ==
    [i \in 1..Len(rows) |->
        [type |-> TypeOfQuery(q), timestamp |-> GetTimestamp(rows[i]),
         sessionId |-> rows[i].sessionId]]

\* str.__lt__ on two timestamp strings: '' first, ISO strings of one format
\* by instant, a string that starts with a letter last
StrLess(a, b) ==
    LET rank(t) == CASE t.kind = "empty" -> 0 [] t.kind = "iso" -> 1 [] OTHER -> 2
    IN  \/ rank(a) < rank(b)
        \/ rank(a) = 1 /\ rank(b) = 1 /\
             (\E k \in 1..5 :
                 LET x == <<a.y, a.mo, a.d, a.h, a.mi>>
                     y == <<b.y, b.mo, b.d, b.h, b.mi>>
                 IN  x[k] < y[k] /\ \A m \in 1..(k - 1) : x[m] = y[m])

\* one step of the stable descending sort: e goes after every entry whose
\* timestamp is not smaller than its own
RECURSIVE InsertDesc(_, _)
InsertDesc(sortedq, e) ==
    IF sortedq = <<>> THEN <<e>>
    ELSE IF StrLess(Head(sortedq).timestamp, e.timestamp) THEN <<e>> \o sortedq
    ELSE <<Head(sortedq)>> \o InsertDesc(Tail(sortedq), e)

\* all_errors.sort(key=lambda x: x['timestamp'], reverse=True)
RECURSIVE SortDesc(_, _)
SortDesc(done, rest) ==
    IF rest = <<>> THEN done ELSE SortDesc(InsertDesc(done, Head(rest)), Tail(rest))

\* s.get('extensionInfo') and s['extensionInfo'].get('currentExtension', 1) > 1
\* raises for a string (no .get) and for a currentExtension that is no number
ExtendedTestRaises(s) ==
    \/ s.extensionInfo.kind = "str"
    \/ s.extensionInfo.kind = "record" /\ s.extensionInfo.ce.kind \in {"null", "str"}

IsExtended(s) ==
    /\ s.extensionInfo.kind = "record"
    /\ (IF s.extensionInfo.ce.kind = "missing" THEN 1 ELSE s.extensionInfo.ce.v) > 1

\* the other order of the chain: the handoff test first
ClassifyHandoffFirst(s) ==
    IF s.parentSessionId # Missing \/ s.handoffToSessionId # Missing THEN "handoff"
    ELSE IF IsExtended(s) THEN "extended"
    ELSE "single"

\* the if / elif / else of the session type loop
Classify(s) ==
    IF IsExtended(s) THEN "extended"
    ELSE IF s.parentSessionId # Missing \/ s.handoffToSessionId # Missing THEN "handoff"
    ELSE "single"

SessionTypeNames == {"single", "extended", "handoff"}

\* counters fed by three independent tests instead of one chain
SessionTypesIndependent(stats) ==
    [t \in SessionTypeNames |->
        Cardinality({ i \in 1..Len(stats) :
            CASE t = "extended" -> IsExtended(stats[i])
              [] t = "handoff" -> stats[i].parentSessionId # Missing
                                   \/ stats[i].handoffToSessionId # Missing
              [] t = "single" -> Classify(stats[i]) = "single" })]

\* session_types after the loop over stats
SessionTypes(stats) ==
    [t \in SessionTypeNames |->
        Cardinality({ i \in 1..Len(stats) : Classify(stats[i]) = t })]

\* session_type_map after the loop: a later SessionStat overwrites an id
SessionTypeMap(stats) ==
    [sid \in { stats[i].id : i \in 1..Len(stats) } |->
        LET last == CHOOSE i \in 1..Len(stats) :
                        /\ stats[i].id = sid
                        /\ \A k \in (i + 1)..Len(stats) : stats[k].id # sid
        IN  Classify(stats[last])]

NoResponse ==
    [status |-> 0,
     stats |-> [bugs |-> 0, failures |-> 0, errors |-> 0, cli |-> 0, uniqueSessions |-> 0],
     errors |-> <<>>, timeSeries |-> <<>>,
     sessionTypes |-> [t \in SessionTypeNames |-> 0],
     sessionTypeMap |-> << >>]

\* an exception left the handler: Flask answers 500
ServerError == [NoResponse EXCEPT !.status = 500]

\* all_errors after the four loops, before the sort
Flattened(failed) ==
    LET bugs == Flatten("bugs", query_couchbase("bugs", failed))
        failures == Flatten("failures", query_couchbase("failures", failed))
        pair_errors == Flatten("pair_errors", query_couchbase("pair_errors", failed))
        cli_failures == Flatten("cli_failures", query_couchbase("cli_failures", failed))
    IN  bugs \o failures \o pair_errors \o cli_failures

AllErrors(failed) == SortDesc(<<>>, Flattened(failed))

\* c.get('command', '')[:50]: None (a null command) has no slice; a row
\* without the key gives ''
SubscriptRaises(row) ==
    IF "command" \in DOMAIN row THEN row.command.kind = "null" ELSE FALSE

\* the loop over cli_failures raises TypeError at a row whose command is null
CliLoopRaises(failed) ==
    LET rows == query_couchbase("cli_failures", failed)
    IN  \E i \in 1..Len(rows) : SubscriptRaises(rows[i])

\* all_errors.sort(...) compares keys with <: a None among two or more
\* keys raises TypeError
SortRaises(entries) ==
    Len(entries) >= 2 /\ \E i \in 1..Len(entries) : entries[i].timestamp.kind = "null"

\* an exception leaves get_errors before build_time_series is called
RaisesBeforeSeries(failed) == CliLoopRaises(failed) \/ SortRaises(Flattened(failed))

\* a session_ids that only the loop over bugs adds to
session_ids_of_bugs(failed) ==
    LET rows == query_couchbase("bugs", failed)
    IN  { rows[i].sessionId : i \in 1..Len(rows) }

\* session_ids after the four loops: session_ids.add(row.get('sessionId', ''))
\* for every row of the four event queries
session_ids(failed) ==
    UNION { { query_couchbase(q, failed)[i].sessionId : i \in 1..Len(query_couchbase(q, failed)) }
            : q \in {"bugs", "failures", "pair_errors", "cli_failures"} }

\* the JSON GET /api/errors answers once time_series is built
Respond(failed, all_errors, time_series, stats) ==
    IF \E i \in 1..Len(stats) : ExtendedTestRaises(stats[i]) THEN ServerError
    ELSE [status |-> 200,
          stats |-> [bugs |-> Len(query_couchbase("bugs", failed)),
                     failures |-> Len(query_couchbase("failures", failed)),
                     errors |-> Len(query_couchbase("pair_errors", failed)),
                     cli |-> Len(query_couchbase("cli_failures", failed)),
                     uniqueSessions |-> Cardinality(session_ids(failed))],
          errors |-> all_errors,
          timeSeries |-> time_series,
          sessionTypes |-> SessionTypes(stats),
          sessionTypeMap |-> SessionTypeMap(stats)]

EmptyUpstream == [q \in Queries |-> <<>>]

\* ------------------------------------------------- handoff_test_template.py
\* a Python int, which has no width: the value m * 2^e, with e = 0 for the
\* values small enough to count with
PyInt(v) == [m |-> v, e |-> 0]

TwoToThe(e) == [m |-> 1, e |-> e]

\* how a call ended: it returned a value or raised
Returns(v) == [kind |-> "returned", value |-> v, error |-> "none"]

Raises(err) == [kind |-> "raised", value |-> FALSE, error |-> err]

NotCalled == [kind |-> "none", value |-> FALSE, error |-> "none"]

\* n < 2
LessThanTwo(x) == x.e = 0 /\ x.m < 2

\* n ** 0.5 converts n to a float first: OverflowError from 2^1024 on
PowHalfOverflows(x) == x.m >= 1 /\ x.e >= FloatMaxExp

\* int(n ** 0.5) for an n the float holds exactly
IntSqrt(v) == CHOOSE r \in 0..v : r * r <= v /\ (r + 1) * (r + 1) > v

\* is_prime(n): the loop returns False at the first i that divides n
is_prime(x) ==
    IF LessThanTwo(x) THEN Returns(FALSE)
    ELSE IF PowHalfOverflows(x) THEN Raises("OverflowError")
    ELSE IF \E i \in 2..IntSqrt(x.m) : x.m % i = 0 THEN Returns(FALSE)
    ELSE Returns(TRUE)

\* the arguments is_prime is called with
IsPrimeInputs == { PyInt(v) : v \in (-3)..MaxN } \cup { TwoToThe(FloatMaxExp) }

\* the arguments factorial is called with
FactorialInputs == { PyInt(v) : v \in (-3)..MaxFactorial } \cup { PyInt(RecursionLimit) }

\* factorial not called, in its calls, in its returns, or ended
NoFactorial == [kind |-> "none", value |-> 0, error |-> "none"]

\* the n of the next factorial call: the argument, then n - 1 of the frame above
NextN == IF frames = <<>> THEN argument.m ELSE frames[Len(frames)] - 1

\* the interpreter refuses a frame deeper than the recursion limit
TooDeep(depth) == depth > RecursionLimit

\* no call made
HandoffIdle ==
    /\ argument = PyInt(0)
    /\ is_prime_result = NotCalled
    /\ frames = <<>>
    /\ factorial_result = NoFactorial

\* ------------------------------------------------ rollback_test_template.py
\* the names of the functions of a document, and one it does not have yet
FuncNames == {"func1", "func2"}

NewFuncNames == {"func6"}

\* the code of a function: as first written, and two rewrites
Codes == {"code0", "code1", "code2"}

\* the documents the script may start from
OriginalDocuments == [FuncNames -> {"code0"}] \cup [{"func1"} -> {"code0", "code1"}]

\* get_md5: the digest of str(sorted(doc.items())), held as the sorted items
\* themselves (one text, one digest)
get_md5(doc) == { <<k, doc[k]>> : k \in DOMAIN doc }

\* save_state: history.append(copy.deepcopy(doc))
save_state(hist, doc) == Append(hist, doc)

\* doc[func_name] = new_code
SetItem(doc, func_name, new_code) ==
    [k \in (DOMAIN doc) \cup {func_name} |-> IF k = func_name THEN new_code ELSE doc[k]]

\* apply_change: the document returned and the history left
apply_change(doc, hist, func_name, new_code) ==
    [document |-> SetItem(doc, func_name, new_code), history |-> save_state(hist, doc)]

\* a rollback that takes the oldest saved state
rollback_oldest_first(doc, hist) ==
    IF hist # <<>> THEN [document |-> Head(hist), history |-> Tail(hist)]
    ELSE [document |-> doc, history |-> hist]

\* rollback: history.pop() when history is not empty, else doc itself
rollback(doc, hist) ==
    IF hist # <<>> THEN [document |-> hist[Len(hist)], history |-> SubSeq(hist, 1, Len(hist) - 1)]
    ELSE [document |-> doc, history |-> hist]

\* the module's functions on objects: a dict is an object with an identity,
\* a variable and a list entry hold a reference to it

\* the variables of a caller that keeps two documents
DocNames == {"a", "b"}

\* the second document as first written
OtherDocument == [k \in {"func1"} |-> "other"]

\* the changes a caller makes: a function rewritten, a function added
Changes == { <<"func1", "code1">>, <<"func1", "code2">>, <<"func6", "code1">> }

\* a save_state that appends the document itself
alias(mem, id) == [objects |-> mem, id |-> id]

\* copy.deepcopy(doc): a new object with the contents of doc
deepcopy(mem, id) == [objects |-> Append(mem, mem[id]), id |-> Len(mem) + 1]

\* save_state(doc) on objects: the copy is appended to history
save_state_ref(mem, hist, id) ==
    LET copy == deepcopy(mem, id)
    IN  [objects |-> copy.objects, history |-> Append(hist, copy.id), saved |-> copy.id]

\* apply_change(doc, func_name, new_code) on objects: doc is changed in
\* place and returned
apply_change_ref(mem, hist, id, func_name, new_code) ==
    LET s == save_state_ref(mem, hist, id)
    IN  [objects |-> [s.objects EXCEPT ![id] = SetItem(@, func_name, new_code)],
         history |-> s.history, saved |-> s.saved, returned |-> id]

\* a rollback on objects that takes the oldest entry
rollback_ref_oldest(hist, id) ==
    IF hist # <<>> THEN [history |-> Tail(hist), returned |-> Head(hist)]
    ELSE [history |-> hist, returned |-> id]

\* a rollback on objects that answers an empty history with the first
\* document made
rollback_ref_or_first(hist, id) ==
    IF hist # <<>>
    THEN [history |-> SubSeq(hist, 1, Len(hist) - 1), returned |-> hist[Len(hist)]]
    ELSE [history |-> hist, returned |-> 1]

\* rollback(doc) on objects: the popped entry, or doc itself
rollback_ref(hist, id) ==
    IF hist # <<>>
    THEN [history |-> SubSeq(hist, 1, Len(hist) - 1), returned |-> hist[Len(hist)]]
    ELSE [history |-> hist, returned |-> id]

\* one call as the caller sees it: the function, the variable it was made
\* on, the object passed and its contents then, the object returned and its
\* contents then, and the object save_state appended (0 for none)
CallRecord(op, d, arg, before, ret, after, saved) ==
    [op |-> op, doc |-> d, arg |-> arg, before |-> before, ret |-> ret, after |-> after,
     saved |-> saved]

\* no object made, no call
HeapIdle ==
    /\ objects = <<>>
    /\ refs = << >>
    /\ history_refs = <<>>
    /\ log = <<>>

\* the script not run
RollbackIdle ==
    /\ original_document = << >>
    /\ document = << >>
    /\ history = <<>>
    /\ ops = <<>>
    /\ HeapIdle

\* ---------------------------------------------------------------- get_session
\* a session id that closes the string literal of the statement it is put in
Injection == "x\" OR \"1\"=\"1"

\* the <session_id> of the route: any text without a slash
SessionIdValues == {"A", "B", "Z", Injection}

DocumentIds == {"A", "B"}

\* the WHERE clause of the statement f'... WHERE META(d).id = "{session_id}"':
\* the document of that id; for Injection the text reads
\* META(d).id = "x" OR "1"="1", which holds of every document
Selects(sid, d) == sid = Injection \/ d = sid

\* a session document, and the object of the not-found answer
Document(d) == [error |-> Missing, id |-> d]

NotFound == [error |-> "Session not found", id |-> Missing]

\* the body of the 500 page Flask answers when the handler raises
ErrorPage == [error |-> Missing, id |-> Missing]

\* the value under "results": an array of rows, or an object
ResultsList(rows) == [kind |-> "list", rows |-> rows]

ResultsObject == [kind |-> "object", rows |-> <<>>]

\* how the store answers a request: with the rows selected, not at all
\* (network error, non-2xx, no JSON), or with an object under "results"
ReplyKinds == {"rows", "failure", "object"}

\* the orders in which the store may return the rows selected
RowOrders(sid) ==
    LET sel == { d \in documents : Selects(sid, d) }
    IN  { q \in [1..Cardinality(sel) -> sel] : \A i, j \in DOMAIN q : i # j => q[i] # q[j] }

\* query_couchbase(query) of get_session: data.get("results", []), [] on failure
SessionResults(reply, order) ==
    CASE reply = "rows" -> ResultsList([i \in DOMAIN order |-> Document(order[i])])
      [] reply = "failure" -> ResultsList(<<>>)
      [] reply = "object" -> ResultsObject

\* `if results:`
Truthy(res) == res.kind = "object" \/ res.rows # <<>>

\* the answer of get_session; results[0] of an object raises KeyError
get_session(res) ==
    IF Truthy(res)
    THEN IF res.kind = "list" THEN [status |-> 200, body |-> Head(res.rows)]
         ELSE [status |-> 500, body |-> ErrorPage]
    ELSE [status |-> 404, body |-> NotFound]

NoSessionResponse == [status |-> 0, body |-> ErrorPage]

\* no session detail request yet
SessionIdle ==
    /\ session_id = Missing
    /\ results = ResultsList(<<>>)
    /\ session_response = NoSessionResponse
    /\ requests = 0

\* ---------------------------------------------------------------- viewSession
\* the session ids of the rows a user can click
ViewIds == {"A", "B"}

\* currentSession = null
Null == [error |-> Missing, id |-> Missing]

\* `if (!session)`: an absent key reads undefined; a stored object is truthy
Cached(cache, sid) == sid \in DOMAIN cache

\* sessionCache[sessionId] = session
Store(cache, sid, session) ==
    [k \in (DOMAIN cache) \cup {sid} |-> IF k = sid THEN session ELSE cache[k]]

\* the tabs of the modal: as the page loads, with the 'Loading...' texts,
\* or with a session rendered (the line 'Error: ...' for an error object)
NothingRendered == [state |-> "none", session |-> Null]

Loading == [state |-> "loading", session |-> Null]

Shown(session) == [state |-> "shown", session |-> session]

\* the page as loaded: nothing cached, nothing shown, no call made
ViewIdle ==
    /\ sessionCache = << >>
    /\ currentSession = Null
    /\ viewCalls = <<>>
    /\ fetched = <<>>
    /\ modalSessionId = Missing
    /\ rendered = NothingRendered

\* ------------------------------------------------------------ query_couchbase
\* the value under "results" when it is neither an array nor an object
ResultsNull == [kind |-> "null", rows |-> <<>>]

ResultsNumber == [kind |-> "number", rows |-> <<>>]

ResultsString == [kind |-> "string", rows |-> <<>>]

\* the values a JSON object may hold under "results"
ResultsValues ==
    { ResultsNull, ResultsNumber, ResultsString, ResultsObject }
        \cup { ResultsList(rows) : rows \in SeqsUpTo(EventRows, MaxRows) }

\* the body of a response: no JSON text, a JSON value that is no object, or
\* an object with or without the key "results"
Body(kind, has_results, value) == [kind |-> kind, has_results |-> has_results, results |-> value]

Bodies ==
    { Body(k, FALSE, ResultsList(<<>>)) : k \in {"nojson", "null", "number", "string", "array", "object"} }
        \cup { Body("object", TRUE, v) : v \in ResultsValues }

StatusCodes == {200, 204, 404, 500}

\* requests.post raised (connection refused, timeout), or a response came
NetworkFailure == [outcome |-> "network", status |-> 0, body |-> Body("nojson", FALSE, ResultsList(<<>>))]

HttpResponse(status, body) == [outcome |-> "response", status |-> status, body |-> body]

HttpReplies ==
    {NetworkFailure} \cup { HttpResponse(s, b) : s \in StatusCodes, b \in Bodies }

\* resp.raise_for_status(): HTTPError for a 4xx or 5xx status
RaiseForStatusRaises(reply) == reply.status >= 400 /\ reply.status < 600

\* resp.json() raises for a body that is no JSON text; data.get raises
\* AttributeError for a JSON value that is no object
TryBlockRaises(reply) ==
    \/ reply.outcome = "network"
    \/ RaiseForStatusRaises(reply)
    \/ reply.body.kind = "nojson"
    \/ reply.body.kind # "object"

\* what query_couchbase returns: [] from the except branch, else
\* data.get("results", []), the value under the key as it is
QueryCouchbaseReturns(reply) ==
    IF TryBlockRaises(reply) THEN ResultsList(<<>>)
    ELSE IF ~reply.body.has_results THEN ResultsList(<<>>)
    ELSE reply.body.results

\* `for b in bugs:` of a caller: None and a number cannot be iterated
ForLoopRaises(value) == value.kind \in {"null", "number"}

QueryNotCalled == [kind |-> "none", value |-> ResultsList(<<>>)]

QueryReturned(value) == [kind |-> "returned", value |-> value]

\* no call of query_couchbase followed
QueryIdle ==
    /\ http_reply = NetworkFailure
    /\ query_result = QueryNotCalled

InitCommon ==
    /\ documents = {}
    /\ SessionIdle
    /\ ViewIdle
    /\ QueryIdle
    /\ RollbackIdle
    /\ HandoffIdle
    /\ time_range \in Ranges
    /\ total_sessions = 0
    /\ time_buckets = << >>
    /\ result = <<>>
    /\ calls = 0
    /\ upstream = EmptyUpstream
    /\ response = NoResponse
    /\ failing = {}
    /\ outbound = <<>>

\* callers of build_time_series(errors, time_range, total_sessions)
Init ==
    /\ errors \in SeqsUpTo(Events, MaxEvents)
    /\ session_stats = NoStats
    /\ InitCommon

\* events a day, a year, and half an hour apart
DatedTimestamps ==
    { Iso(2023, 12, 31, 23, 59), Iso(2024, 12, 30, 23, 59),
      Iso(2024, 12, 31, 23, 30), Iso(2024, 12, 31, 23, 59) }

DatedEvents == [type : {"bug", "error"}, timestamp : DatedTimestamps, sessionId : {"A"}]

\* callers whose events span days and years
InitDated ==
    /\ errors \in SeqsUpTo(DatedEvents, MaxEvents)
    /\ session_stats = NoStats
    /\ InitCommon

\* callers of build_time_series(errors, time_range, total_sessions, session_stats)
InitStats ==
    /\ errors \in {<<>>} \cup { <<e>> : e \in FewEvents }
    /\ session_stats \in { StatList(l) : l \in SeqsUpTo(SessionStats, MaxStats) }
    /\ InitCommon

\* callers that call again on the arguments they built
InitRepeat ==
    /\ errors \in SeqsUpTo(FewEvents, MaxEvents)
    /\ session_stats \in {NoStats} \cup { StatList(l) : l \in SeqsUpTo(FewStats, MaxStats) }
    /\ InitCommon

\* one execution of build_time_series(errors, time_range, total_sessions, session_stats)
Run ==
    /\ time_buckets' = FillBuckets(EmptyBuckets, errors, time_range, session_stats)
    /\ result' = Emit(time_buckets')
    /\ calls' = calls + 1
    /\ UNCHANGED <<errors, time_range, total_sessions, session_stats, upstream, response,
                   failing, outbound, sessionVars, viewVars, rollbackVars, handoffVars, queryVars>>

\* the first call on the arguments
Call == calls = 0 /\ Run

\* a further call on the same arguments
CallAgain == calls >= 1 /\ calls < MaxCalls /\ Run

\* a document store whose five queries select at most MaxRows rows in all;
\* the queries that fail are among those that select a row (a query that
\* selects no row answers [] whether it fails or not)
InitErrors ==
    /\ \E n \in [Queries -> 0..MaxRows] :
          /\ n["bugs"] + n["failures"] + n["pair_errors"] + n["cli_failures"]
                + n["session_stats"] <= MaxRows
          /\ upstream \in [bugs : [1..n["bugs"] -> EventRows],
                            failures : [1..n["failures"] -> EventRows],
                            pair_errors : [1..n["pair_errors"] -> EventRows],
                            cli_failures : [1..n["cli_failures"] -> EventRows],
                            session_stats : [1..n["session_stats"] -> StatRows]]
    /\ time_range \in RequestRanges
    /\ errors = <<>>
    /\ session_stats = NoStats
    /\ total_sessions = 0
    /\ time_buckets = << >>
    /\ result = <<>>
    /\ calls = 0
    /\ response = NoResponse
    /\ failing \in SUBSET { q \in Queries : upstream[q] # <<>> }
    /\ outbound = <<>>
    /\ documents = {}
    /\ SessionIdle
    /\ ViewIdle
    /\ QueryIdle
    /\ RollbackIdle
    /\ HandoffIdle

\* the row each query selects from a session that has one record of each kind
OutageRow(q) ==
    IF q = "session_stats"
    THEN [id |-> "A", updatedAt |-> Iso(2023, 12, 31, 23, 59),
          tokensIn |-> Num(1000), tokensOut |-> Num(300),
          extensionInfo |-> ExtRecord(Num(2)),
          parentSessionId |-> Missing, handoffToSessionId |-> Missing]
    ELSE [sessionId |-> IF q \in {"bugs", "pair_errors"} THEN "A" ELSE "B",
          timestamp |-> Iso(2023, 12, 31, 23, 59)]

\* a store in which every query may select rows while any of the five
\* requests may fail
InitOutage ==
    /\ upstream \in [bugs : SeqsUpTo({OutageRow("bugs")}, MaxPerQuery),
                      failures : SeqsUpTo({OutageRow("failures")}, MaxPerQuery),
                      pair_errors : SeqsUpTo({OutageRow("pair_errors")}, MaxPerQuery),
                      cli_failures : SeqsUpTo({OutageRow("cli_failures")}, MaxPerQuery),
                      session_stats : SeqsUpTo({OutageRow("session_stats")}, MaxPerQuery)]
    /\ failing \in SUBSET Queries
    /\ time_range \in RequestRanges
    /\ errors = <<>>
    /\ session_stats = NoStats
    /\ total_sessions = 0
    /\ time_buckets = << >>
    /\ result = <<>>
    /\ calls = 0
    /\ response = NoResponse
    /\ outbound = <<>>
    /\ documents = {}
    /\ SessionIdle
    /\ ViewIdle
    /\ QueryIdle
    /\ RollbackIdle
    /\ HandoffIdle

\* a timestamp that is JSON null
NullTimestamp == NotIso("null")

\* rows with the defects a document may carry: a null timestamp, a null
\* command, an extensionInfo that is a string, a currentExtension that is
\* null or a string
DefectTimestamps == { Iso(2023, 12, 31, 23, 59), NullTimestamp }

DefectEventRows == [sessionId : {"A"}, timestamp : DefectTimestamps]

DefectCliRows == [sessionId : {"B"}, timestamp : DefectTimestamps, command : {JStr, JNull}]

DefectStatRows ==
    [id : {"A"}, updatedAt : {Iso(2023, 12, 31, 23, 59)},
     tokensIn : {Num(1000)}, tokensOut : {Num(300)},
     extensionInfo : {ExtRecord(Num(2)), ExtString, ExtRecord(JNull), ExtRecord(JStr)},
     parentSessionId : {Missing}, handoffToSessionId : {Missing}]

\* a store whose rows may carry such defects; every request to it succeeds
InitDefects ==
    /\ upstream \in [bugs : SeqsUpTo(DefectEventRows, MaxPerQuery),
                      failures : SeqsUpTo(DefectEventRows, MaxPerQuery),
                      pair_errors : {<<>>},
                      cli_failures : SeqsUpTo(DefectCliRows, MaxPerQuery),
                      session_stats : SeqsUpTo(DefectStatRows, MaxPerQuery)]
    /\ failing = {}
    /\ time_range = "all"
    /\ errors = <<>>
    /\ session_stats = NoStats
    /\ total_sessions = 0
    /\ time_buckets = << >>
    /\ result = <<>>
    /\ calls = 0
    /\ response = NoResponse
    /\ outbound = <<>>
    /\ documents = {}
    /\ SessionIdle
    /\ ViewIdle
    /\ QueryIdle
    /\ RollbackIdle
    /\ HandoffIdle

\* a store that holds some session documents and fails some of the five
\* queries; both endpoints are requested
InitSession ==
    /\ documents \in SUBSET DocumentIds
    /\ SessionIdle
    /\ ViewIdle
    /\ QueryIdle
    /\ RollbackIdle
    /\ HandoffIdle
    /\ upstream = EmptyUpstream
    /\ failing \in SUBSET Queries
    /\ time_range = "hour"
    /\ errors = <<>>
    /\ session_stats = NoStats
    /\ total_sessions = 0
    /\ time_buckets = << >>
    /\ result = <<>>
    /\ calls = 0
    /\ response = NoResponse
    /\ outbound = <<>>

\* GET /api/session/<sid>: one query, then the first row or the 404 object
GetSession ==
    /\ requests < MaxRequests
    /\ \E sid \in SessionIdValues, reply \in ReplyKinds :
          \E order \in RowOrders(sid) :
             /\ session_id' = sid
             /\ outbound' = outbound \o Attempts("session", IF reply = "rows" THEN {} ELSE {"session"})
             /\ results' = SessionResults(reply, order)
             /\ session_response' = get_session(results')
             /\ requests' = requests + 1
    /\ UNCHANGED <<errors, time_range, total_sessions, session_stats, time_buckets, result,
                   calls, upstream, response, failing, documents, viewVars, rollbackVars, handoffVars, queryVars>>

\* GET /api/errors?range=time_range while the queries in `failing` fail
GetErrors ==
    /\ response.status = 0
    /\ outbound' = outbound \o SendAll(QueriesInOrder, failing)
    /\ IF RaisesBeforeSeries(failing)
       THEN /\ response' = ServerError
            /\ UNCHANGED <<errors, total_sessions, session_stats, time_buckets, result, calls>>
       ELSE LET all_errors == AllErrors(failing)
                stats == query_couchbase("session_stats", failing)
            IN  /\ errors' = all_errors
                /\ total_sessions' = Cardinality(session_ids(failing))
                /\ session_stats' = StatList(stats)
                /\ time_buckets' = FillBuckets(EmptyBuckets, all_errors, time_range,
                                               StatList(stats))
                /\ result' = Emit(time_buckets')
                /\ calls' = calls + 1
                /\ response' = Respond(failing, all_errors, result', stats)
    /\ UNCHANGED <<time_range, upstream, failing, sessionVars, viewVars, rollbackVars, handoffVars, queryVars>>

Next == Call

NextErrors == GetErrors

NextRepeat == Call \/ CallAgain

Spec == Init /\ [][Next]_vars

SpecStats == InitStats /\ [][Next]_vars

SpecDated == InitDated /\ [][Next]_vars

SpecRepeat == InitRepeat /\ [][NextRepeat]_vars

SpecErrors == InitErrors /\ [][NextErrors]_vars

SpecOutage == InitOutage /\ [][NextErrors]_vars

SpecDefects == InitDefects /\ [][NextErrors]_vars

\* the dashboard page open on a store that holds some session documents
InitView ==
    /\ documents \in SUBSET DocumentIds
    /\ SessionIdle
    /\ ViewIdle
    /\ QueryIdle
    /\ RollbackIdle
    /\ HandoffIdle
    /\ upstream = EmptyUpstream
    /\ failing = {}
    /\ time_range = "day"
    /\ errors = <<>>
    /\ session_stats = NoStats
    /\ total_sessions = 0
    /\ time_buckets = << >>
    /\ result = <<>>
    /\ calls = 0
    /\ response = NoResponse
    /\ outbound = <<>>

\* viewSession(sid, pairIndex) up to its first await: a cached session is
\* shown at once, otherwise the fetch is sent and the call waits for it
ViewSession ==
    /\ Len(viewCalls) < MaxViews
    /\ \E sid \in ViewIds :
          IF Cached(sessionCache, sid)
          THEN /\ viewCalls' = Append(viewCalls, [sessionId |-> sid, pc |-> "done",
                                                   session |-> sessionCache[sid]])
               /\ modalSessionId' = sid
               /\ currentSession' = sessionCache[sid]
               /\ rendered' = Shown(sessionCache[sid])
               /\ UNCHANGED <<sessionCache, fetched>>
          ELSE /\ viewCalls' = Append(viewCalls, [sessionId |-> sid, pc |-> "fetch",
                                                   session |-> Null])
               /\ modalSessionId' = sid
               /\ rendered' = Loading
               /\ fetched' = Append(fetched, sid)
               /\ UNCHANGED <<sessionCache, currentSession>>
    /\ UNCHANGED <<dashboardVars, sessionVars, rollbackVars, handoffVars, queryVars>>

\* the fetch of call k resolves: get_session has answered; a body that is
\* JSON is stored in sessionCache and becomes currentSession, the 500 page
\* makes resp.json() reject and ends the call
FetchResolved ==
    \E k \in 1..Len(viewCalls) :
        /\ viewCalls[k].pc = "fetch"
        /\ LET sid == viewCalls[k].sessionId IN
           \E reply \in ReplyKinds : \E order \in RowOrders(sid) :
              /\ session_id' = sid
              /\ outbound' = outbound \o Attempts("session", IF reply = "rows" THEN {} ELSE {"session"})
              /\ results' = SessionResults(reply, order)
              /\ session_response' = get_session(results')
              /\ requests' = requests + 1
              /\ IF session_response'.status = 500
                 THEN /\ viewCalls' = [viewCalls EXCEPT ![k].pc = "failed"]
                      /\ UNCHANGED <<sessionCache, currentSession, rendered>>
                 ELSE /\ sessionCache' = Store(sessionCache, sid, session_response'.body)
                      /\ currentSession' = session_response'.body
                      /\ rendered' = Shown(session_response'.body)
                      /\ viewCalls' = [viewCalls EXCEPT ![k].pc = "done",
                                                         ![k].session = session_response'.body]
        /\ UNCHANGED <<errors, time_range, total_sessions, session_stats, time_buckets, result,
                       calls, upstream, response, failing, documents, fetched, modalSessionId,
                       rollbackVars, handoffVars, queryVars>>

\* document = copy.deepcopy(original_document), history = []
InitRollback ==
    /\ original_document \in OriginalDocuments
    /\ document = original_document
    /\ history = <<>>
    /\ ops = <<>>
    /\ HeapIdle
    /\ HandoffIdle
    /\ documents = {}
    /\ SessionIdle
    /\ ViewIdle
    /\ QueryIdle
    /\ upstream = EmptyUpstream
    /\ failing = {}
    /\ time_range = "day"
    /\ errors = <<>>
    /\ session_stats = NoStats
    /\ total_sessions = 0
    /\ time_buckets = << >>
    /\ result = <<>>
    /\ calls = 0
    /\ response = NoResponse
    /\ outbound = <<>>

NumberOf(op) == Cardinality({ i \in 1..Len(ops) : ops[i] = op })

\* document = apply_change(document, func_name, new_code)
ApplyChange ==
    /\ NumberOf("apply_change") < MaxChanges
    /\ \E func_name \in FuncNames \cup NewFuncNames, new_code \in Codes :
          LET r == apply_change(document, history, func_name, new_code)
          IN  /\ document' = r.document
              /\ history' = r.history
    /\ ops' = Append(ops, "apply_change")
    /\ UNCHANGED <<original_document, objects, refs, history_refs, log, dashboardVars, sessionVars, viewVars, handoffVars, queryVars>>

\* document = rollback(document)
Rollback ==
    /\ NumberOf("rollback") < MaxRollbacks
    /\ LET r == rollback(document, history)
       IN  /\ document' = r.document
           /\ history' = r.history
    /\ ops' = Append(ops, "rollback")
    /\ UNCHANGED <<original_document, objects, refs, history_refs, log, dashboardVars, sessionVars, viewVars, handoffVars, queryVars>>

\* a caller that holds two documents, a and b, each a dict of its own, and
\* an empty history
InitShared ==
    /\ \E a0 \in OriginalDocuments : objects = <<a0, OtherDocument>>
    /\ refs = [d \in DocNames |-> IF d = "a" THEN 1 ELSE 2]
    /\ history_refs = <<>>
    /\ log = <<>>
    /\ original_document = << >>
    /\ document = << >>
    /\ history = <<>>
    /\ ops = <<>>
    /\ HandoffIdle
    /\ documents = {}
    /\ SessionIdle
    /\ ViewIdle
    /\ QueryIdle
    /\ upstream = EmptyUpstream
    /\ failing = {}
    /\ time_range = "day"
    /\ errors = <<>>
    /\ session_stats = NoStats
    /\ total_sessions = 0
    /\ time_buckets = << >>
    /\ result = <<>>
    /\ calls = 0
    /\ response = NoResponse
    /\ outbound = <<>>

\* d = apply_change(d, func_name, new_code) for a variable d of the caller
ApplyChangeTo ==
    /\ Len(log) < MaxOps
    /\ \E d \in DocNames, change \in Changes :
          LET r == apply_change_ref(objects, history_refs, refs[d], change[1], change[2])
          IN  /\ objects' = r.objects
              /\ history_refs' = r.history
              /\ refs' = [refs EXCEPT ![d] = r.returned]
              /\ log' = Append(log, CallRecord("apply_change", d, refs[d], objects[refs[d]],
                                               r.returned, r.objects[r.returned], r.saved))
    /\ UNCHANGED <<original_document, document, history, ops, dashboardVars, sessionVars,
                   viewVars, handoffVars, queryVars>>

\* d = rollback(d) for a variable d of the caller
RollbackOf ==
    /\ Len(log) < MaxOps
    /\ \E d \in DocNames :
          LET r == rollback_ref(history_refs, refs[d])
          IN  /\ history_refs' = r.history
              /\ refs' = [refs EXCEPT ![d] = r.returned]
              /\ log' = Append(log, CallRecord("rollback", d, refs[d], objects[refs[d]],
                                               r.returned, objects[r.returned], 0))
    /\ UNCHANGED <<objects, original_document, document, history, ops, dashboardVars,
                   sessionVars, viewVars, handoffVars, queryVars>>

NextShared == ApplyChangeTo \/ RollbackOf

SpecShared == InitShared /\ [][NextShared]_vars

InitPrime ==
    /\ argument \in IsPrimeInputs
    /\ is_prime_result = NotCalled
    /\ frames = <<>>
    /\ factorial_result = NoFactorial
    /\ RollbackIdle
    /\ documents = {}
    /\ SessionIdle
    /\ ViewIdle
    /\ QueryIdle
    /\ upstream = EmptyUpstream
    /\ failing = {}
    /\ time_range = "day"
    /\ errors = <<>>
    /\ session_stats = NoStats
    /\ total_sessions = 0
    /\ time_buckets = << >>
    /\ result = <<>>
    /\ calls = 0
    /\ response = NoResponse
    /\ outbound = <<>>

\* is_prime(argument)
IsPrime ==
    /\ is_prime_result.kind = "none"
    /\ is_prime_result' = is_prime(argument)
    /\ UNCHANGED <<argument, frames, factorial_result, dashboardVars, sessionVars, viewVars,
                   rollbackVars, queryVars>>

InitFactorial ==
    /\ argument \in FactorialInputs
    /\ is_prime_result = NotCalled
    /\ frames = <<>>
    /\ factorial_result = NoFactorial
    /\ RollbackIdle
    /\ documents = {}
    /\ SessionIdle
    /\ ViewIdle
    /\ QueryIdle
    /\ upstream = EmptyUpstream
    /\ failing = {}
    /\ time_range = "day"
    /\ errors = <<>>
    /\ session_stats = NoStats
    /\ total_sessions = 0
    /\ time_buckets = << >>
    /\ result = <<>>
    /\ calls = 0
    /\ response = NoResponse
    /\ outbound = <<>>

\* a call factorial(NextN) is made: by run_tests, or by the frame above at
\* `n * factorial(n - 1)` when its n > 1; past the recursion limit the call
\* raises RecursionError, which unwinds every frame
FactorialCall ==
    /\ factorial_result.kind \in {"none", "calling"}
    /\ IF frames = <<>> THEN TRUE ELSE frames[Len(frames)] > 1
    /\ IF TooDeep(CallerFrames + Len(frames) + 1)
       THEN /\ frames' = <<>>
            /\ factorial_result' = [kind |-> "raised", value |-> 0, error |-> "RecursionError"]
       ELSE /\ frames' = Append(frames, NextN)
            /\ factorial_result' = [factorial_result EXCEPT !.kind = "calling"]
    /\ UNCHANGED <<argument, is_prime_result, dashboardVars, sessionVars, viewVars,
                   rollbackVars, queryVars>>

\* the innermost frame returns: 1 when its n <= 1, else n times what the
\* call it made returned
FactorialReturn ==
    /\ frames # <<>>
    /\ \/ factorial_result.kind = "calling" /\ frames[Len(frames)] <= 1
       \/ factorial_result.kind = "returning"
    /\ LET top == frames[Len(frames)]
           v == IF factorial_result.kind = "calling" THEN 1 ELSE top * factorial_result.value
       IN  /\ frames' = SubSeq(frames, 1, Len(frames) - 1)
           /\ factorial_result' =
                 [kind |-> IF Len(frames) = 1 THEN "returned" ELSE "returning",
                  value |-> v, error |-> "none"]
    /\ UNCHANGED <<argument, is_prime_result, dashboardVars, sessionVars, viewVars,
                   rollbackVars, queryVars>>

NextSession == GetErrors \/ GetSession

NextFactorial == FactorialCall \/ FactorialReturn

NextPrime == IsPrime

NextRollback == ApplyChange \/ Rollback

NextView == ViewSession \/ FetchResolved

SpecSession == InitSession /\ [][NextSession]_vars

SpecView == InitView /\ [][NextView]_vars

SpecRollback == InitRollback /\ [][NextRollback]_vars

SpecPrime == InitPrime /\ [][NextPrime]_vars

SpecFactorial == InitFactorial /\ [][NextFactorial]_vars

\* a call that can take a step takes it
FairFactorial == SpecFactorial /\ WF_vars(NextFactorial)

\* a store that answers one request in any of the ways HTTP allows
InitQuery ==
    /\ http_reply \in HttpReplies
    /\ query_result = QueryNotCalled
    /\ documents = {}
    /\ SessionIdle
    /\ ViewIdle
    /\ RollbackIdle
    /\ HandoffIdle
    /\ upstream = EmptyUpstream
    /\ failing = {}
    /\ time_range = "day"
    /\ errors = <<>>
    /\ session_stats = NoStats
    /\ total_sessions = 0
    /\ time_buckets = << >>
    /\ result = <<>>
    /\ calls = 0
    /\ response = NoResponse
    /\ outbound = <<>>

\* one call query_couchbase(n1ql) answered by http_reply
QueryCouchbase ==
    /\ query_result.kind = "none"
    /\ query_result' = QueryReturned(QueryCouchbaseReturns(http_reply))
    /\ UNCHANGED <<http_reply, dashboardVars, sessionVars, viewVars, rollbackVars, handoffVars>>

NextQuery == QueryCouchbase

SpecQuery == InitQuery /\ [][NextQuery]_vars

\* ------------------------------------------------- vocabulary of the claims
\* The label the specification gives an instant: HH:MM for hour, HH:00 for
\* day, MM/DD for week, month and all, as its four digits.
ClaimLabel(range, ts) ==
    CASE range = "hour" ->
            [sep |-> ":", digits |-> <<ts.h \div 10, ts.h % 10, ts.mi \div 10, ts.mi % 10>>]
      [] range = "day" ->
            [sep |-> ":", digits |-> <<ts.h \div 10, ts.h % 10, 0, 0>>]
      [] range \in {"week", "month", "all"} ->
            [sep |-> "/", digits |-> <<ts.mo \div 10, ts.mo % 10, ts.d \div 10, ts.d % 10>>]

Parsable(ts) == ts.kind = "iso"

AllLabels(range) == { ClaimLabel(range, ts) : ts \in (ValidTimestamps \cup StatTimestamps) \ InvalidTimestamps }

\* the positions of the events of type ty that carry a parsable timestamp labelled l
EventsAt(ty, l) ==
    { i \in 1..Len(errors) :
        /\ errors[i].type = ty
        /\ Parsable(errors[i].timestamp)
        /\ ClaimLabel(time_range, errors[i].timestamp) = l }

\* the positions of the emitted buckets labelled l
BucketsAt(l) == { j \in 1..Len(result) : result[j].period = l }

\* the value the output reports under field f for label l, 0 when no bucket has it
Reported(f, l) ==
    IF BucketsAt(l) = {} THEN 0 ELSE result[CHOOSE j \in BucketsAt(l) : TRUE][f]

RECURSIVE SumField(_, _)
SumField(out, f) == IF out = <<>> THEN 0 ELSE Head(out)[f] + SumField(Tail(out), f)

CountedTypes == {"bug", "failure", "error"}

FieldOf(ty) == CASE ty = "bug" -> "bugs" [] ty = "failure" -> "failures" [] ty = "error" -> "errors"

\* C1: after a call, for each of bug, failure and error, every label's bucket
\* reports exactly the number of events of that type whose parsable timestamp
\* formats to that label (HH:MM, HH:00 or MM/DD by range), no label is emitted
\* twice, and the counter summed over the emitted buckets is the number of
\* such events.
C1_CountedInExactlyOneBucket ==
    called =>
        /\ \A l \in AllLabels(time_range) : Cardinality(BucketsAt(l)) <= 1
        /\ \A j \in 1..Len(result) : result[j].period \in AllLabels(time_range)
        /\ \A ty \in CountedTypes :
            /\ \A l \in AllLabels(time_range) :
                   Reported(FieldOf(ty), l) = Cardinality(EventsAt(ty, l))
            /\ SumField(result, FieldOf(ty)) =
                   Cardinality({ i \in 1..Len(errors) :
                       errors[i].type = ty /\ Parsable(errors[i].timestamp) })

C1_Witness ==
    /\ called
    /\ Len(errors) = 2
    /\ Len(result) = 2
    /\ errors[1].type = "bug" /\ errors[2].type = "failure"
    /\ result[1].failures = 1 /\ result[2].bugs = 1

\* the instant a parsable timestamp names, compared field by field
Earlier(a, b) ==
    LET x == <<a.y, a.mo, a.d, a.h, a.mi>>
        y == <<b.y, b.mo, b.d, b.h, b.mi>>
    IN  \E k \in 1..5 : x[k] < y[k] /\ \A m \in 1..(k - 1) : x[m] = y[m]

\* event i is counted in the emitted bucket j
CountedIn(i, j) ==
    /\ errors[i].type \in CountedTypes
    /\ Parsable(errors[i].timestamp)
    /\ ClaimLabel(time_range, errors[i].timestamp) = result[j].period

\* C2: the emitted buckets are in ascending chronological order: every event
\* counted in an earlier bucket has an earlier timestamp than every event
\* counted in a later bucket.
C2_ChronologicalOrder ==
    called =>
        \A j1, j2 \in 1..Len(result) :
            j1 < j2 =>
                \A i1, i2 \in 1..Len(errors) :
                    CountedIn(i1, j1) /\ CountedIn(i2, j2) =>
                        Earlier(errors[i1].timestamp, errors[i2].timestamp)

ValidTimestamp(e) == Parsable(e.timestamp)

\* C3: events whose timestamp is missing, empty or unparsable are skipped:
\* the output is the output for the input without them, and every emitted
\* bucket is the bucket of an event with a parsable timestamp.
C3_BadTimestampSkipped ==
    called =>
        /\ result = build_time_series(SelectSeq(errors, ValidTimestamp), time_range,
                                       total_sessions, session_stats)
        /\ \A j \in 1..Len(result) :
               \E i \in 1..Len(errors) :
                   /\ Parsable(errors[i].timestamp)
                   /\ ClaimLabel(time_range, errors[i].timestamp) = result[j].period

C3_Witness ==
    /\ called
    /\ Len(errors) = 2
    /\ errors[1].timestamp.kind = "garbage"
    /\ errors[1].type = "bug"
    /\ errors[2].timestamp.kind = "iso"
    /\ errors[2].type = "bug"
    /\ Len(result) = 1
    /\ result[1].bugs = 1

WellFormedEvent(e) == Parsable(e.timestamp) /\ e.type # Missing

WellFormedStat(s) ==
    Parsable(s.updatedAt) /\ s.tokensIn.kind \in {"num", "null"}
                          /\ s.tokensOut.kind \in {"num", "null"}

WithoutMalformedStats(stats) ==
    IF stats.none THEN stats ELSE StatList(SelectSeq(stats.rows, WellFormedStat))

\* C4: every malformed record is skipped as a whole: the output is the output
\* for the input without the malformed events and SessionStats.
C4_MalformedRecordSkipped ==
    called =>
        result = build_time_series(SelectSeq(errors, WellFormedEvent), time_range,
                                   total_sessions, WithoutMalformedStats(session_stats))

Abs(n) == IF n < 0 THEN -n ELSE n

Max(a, b) == IF a >= b THEN a ELSE b

\* v / scale is a multiple of 1 / scale nearest to num / den
IsRounded(v, num, den, scale) == 2 * Abs(v * den - num * scale) <= den

\* C7: avgPerSession of every emitted bucket is (bugs + failures + errors)
\* divided by max(1, distinct session ids of the bucket), rounded to 2
\* decimals; a bucket without sessions divides by 1.
C7_AvgPerSession ==
    called =>
        \A j \in 1..Len(result) :
            LET b == result[j]
                n == Cardinality(time_buckets[b.period].sessions)
            IN  IsRounded(b.avgPerSession, b.bugs + b.failures + b.errors, Max(1, n), 100)

C7_Witness ==
    /\ called
    /\ Len(result) = 2
    /\ Cardinality(time_buckets[result[1].period].sessions) = 0
    /\ result[1].avgPerSession = 0
    /\ Cardinality(time_buckets[result[2].period].sessions) = 1
    /\ result[2].bugs = 1
    /\ result[2].avgPerSession = 100

\* C8: a further call on the same arguments returns what the call before it
\* returned, and no call changes its arguments.
C8_Repeatable ==
    [][ /\ errors' = errors
        /\ session_stats' = session_stats
        /\ time_range' = time_range
        /\ total_sessions' = total_sessions
        /\ called => result' = result ]_vars

C8_Witness ==
    /\ calls = 2
    /\ Len(errors) = 2
    /\ ~session_stats.none /\ Len(session_stats.rows) = 2
    /\ Len(result) = 2
    /\ result[2].bugs = 2
    /\ result[2].tokensIn = 1000

RECURSIVE SumInts(_)
SumInts(q) == IF q = <<>> THEN 0 ELSE Head(q) + SumInts(Tail(q))

TokenCount(x) == IF x.kind = "num" THEN x.v ELSE 0

\* rows[i] has a parsable updatedAt labelled l
StatAt(rows, i, l) ==
    Parsable(rows[i].updatedAt) /\ ClaimLabel(time_range, rows[i].updatedAt) = l

TokensInAt(rows, l) ==
    SumInts([i \in 1..Len(rows) |->
        IF StatAt(rows, i, l) THEN TokenCount(rows[i].tokensIn) ELSE 0])

TokensOutAt(rows, l) ==
    SumInts([i \in 1..Len(rows) |->
        IF StatAt(rows, i, l) THEN TokenCount(rows[i].tokensOut) ELSE 0])

TokensTyped(rows) ==
    \A i \in 1..Len(rows) :
        rows[i].tokensIn.kind \in {"num", "null"} /\ rows[i].tokensOut.kind \in {"num", "null"}

\* C9: when the supplied SessionStats carry token counts that are numbers or
\* null, every label's bucket reports as tokensIn and tokensOut the sums (null
\* as 0) over the SessionStats whose parsable updatedAt formats to that label,
\* holds 4 bytes per token of them as estimated bytes, and has their ids in
\* its session set.
C9_StatsAccumulated ==
    (called /\ ~session_stats.none /\ TokensTyped(session_stats.rows)) =>
        LET rows == session_stats.rows IN
        \A l \in AllLabels(time_range) :
            /\ Reported("tokensIn", l) = TokensInAt(rows, l)
            /\ Reported("tokensOut", l) = TokensOutAt(rows, l)
            /\ (\E i \in 1..Len(rows) : StatAt(rows, i, l)) =>
                   /\ l \in DOMAIN time_buckets
                   /\ time_buckets[l].totalSizeBytes =
                          (TokensInAt(rows, l) + TokensOutAt(rows, l)) * 4
                   /\ \A i \in 1..Len(rows) :
                          StatAt(rows, i, l) => rows[i].id \in time_buckets[l].sessions

C9_Witness ==
    /\ called
    /\ ~session_stats.none
    /\ Len(session_stats.rows) = 2
    /\ session_stats.rows[1].tokensIn = Num(1000)
    /\ session_stats.rows[2].tokensIn = JNull
    /\ session_stats.rows[1].id # session_stats.rows[2].id
    /\ Len(result) = 1
    /\ result[1].tokensIn = 1000
    /\ result[1].tokensOut = 600
    /\ time_buckets[result[1].period].totalSizeBytes = 6400
    /\ time_buckets[result[1].period].sessions = {"A", "B"}

CliAt(l) == EventsAt("cli", l)

\* C10 as stated: every emitted bucket that cli events with a parsable
\* timestamp fall in reports their number under a cli counter.
C10_CliCountReported ==
    called =>
        \A j \in 1..Len(result) :
            CliAt(result[j].period) # {} =>
            \E f \in {"cli", "clis"} \cap DOMAIN result[j] :
                result[j][f] = Cardinality(CliAt(result[j].period))

SummaryFields ==
    {"period", "bugs", "failures", "errors", "avgPerSession",
     "tokensIn", "tokensOut", "avgSessionSizeKB"}

\* C10 amended: an emitted bucket reports raw counts for bug, failure and
\* error only. A cli event with a parsable timestamp has its bucket emitted
\* and is tallied in the bucket while the call runs, yet the summary has no
\* cli counter and the event is in none of bugs, failures, errors.
C10_CliNotReported ==
    called =>
        /\ \A j \in 1..Len(result) :
            /\ DOMAIN result[j] = SummaryFields
            /\ time_buckets[result[j].period].clis = Cardinality(CliAt(result[j].period))
            /\ \A ty \in CountedTypes :
                   result[j][FieldOf(ty)] = Cardinality(EventsAt(ty, result[j].period))
        /\ \A l \in AllLabels(time_range) : CliAt(l) # {} => BucketsAt(l) # {}

C10_Witness ==
    /\ called
    /\ Len(errors) = 2
    /\ errors[1].type = "cli" /\ errors[2].type = "cli"
    /\ Len(result) = 1
    /\ time_buckets[result[1].period].clis = 2
    /\ result[1].bugs + result[1].failures + result[1].errors = 0

\* the SessionStats the request classified
Classified == session_stats.rows

\* extensionInfo is absent or a record whose currentExtension, when it has
\* one, is a number
WellFormedExt(s) ==
    \/ s.extensionInfo.kind = "missing"
    \/ s.extensionInfo.kind = "record" /\ s.extensionInfo.ce.kind \in {"missing", "num"}

Answered == response.status # 0

\* C5: for SessionStats whose extension metadata is well formed the endpoint
\* answers, and the counts single + extended + handoff of its answer sum to
\* the number of SessionStats.
C5_ClassificationTotal ==
    (Answered /\ \A i \in 1..Len(Classified) : WellFormedExt(Classified[i])) =>
        /\ response.status = 200
        /\ DOMAIN response.sessionTypes = {"single", "extended", "handoff"}
        /\ \A t \in DOMAIN response.sessionTypes : response.sessionTypes[t] >= 0
        /\ response.sessionTypes["single"] + response.sessionTypes["extended"]
              + response.sessionTypes["handoff"] = Len(Classified)

C5_Witness ==
    /\ response.status = 200
    /\ Len(Classified) = 2
    /\ response.sessionTypes["extended"] = 1
    /\ response.sessionTypes["handoff"] = 1
    /\ Classified[1].extensionInfo = ExtRecord(Num(2))
    /\ Classified[1].parentSessionId = "P"

\* the category the specification gives a SessionStat
HasMoreThanOnePart(s) ==
    s.extensionInfo.kind = "record" /\ s.extensionInfo.ce.kind = "num"
                                    /\ s.extensionInfo.ce.v > 1

HasHandoffReference(s) == s.parentSessionId # Missing \/ s.handoffToSessionId # Missing

Category(s) ==
    CASE HasMoreThanOnePart(s) -> "extended"
      [] ~HasMoreThanOnePart(s) /\ HasHandoffReference(s) -> "handoff"
      [] ~HasMoreThanOnePart(s) /\ ~HasHandoffReference(s) -> "single"

BytesAt(rows, l) ==
    4 * SumInts([i \in 1..Len(rows) |->
            IF StatAt(rows, i, l) /\ WellFormedStat(rows[i])
            THEN TokenCount(rows[i].tokensIn) + TokenCount(rows[i].tokensOut)
            ELSE 0])

\* C11: avgSessionSizeKB of every emitted bucket is a number: the bucket's
\* estimated bytes (4 bytes per token over its SessionStats) divided by the
\* number of distinct sessions of the bucket and by 1024, rounded to 1
\* decimal; a bucket without a session divides by 1 and reports 0.
C11_AvgSessionSizeKB ==
    called =>
        \A j \in 1..Len(result) :
            LET b == result[j]
                n == Cardinality(time_buckets[b.period].sessions)
                bytes == BytesAt(session_stats.rows, b.period)
            IN  /\ b.avgSessionSizeKB \in Nat
                /\ time_buckets[b.period].totalSizeBytes = bytes
                /\ IsRounded(b.avgSessionSizeKB, bytes, Max(1, n) * 1024, 10)
                /\ n = 0 => b.avgSessionSizeKB = 0

C11_Witness ==
    /\ called
    /\ Len(result) = 2
    /\ Cardinality(time_buckets[result[1].period].sessions) = 0
    /\ result[1].avgSessionSizeKB = 0
    /\ Cardinality(time_buckets[result[2].period].sessions) = 2
    /\ time_buckets[result[2].period].totalSizeBytes = 10400
    /\ result[2].avgSessionSizeKB = 51

EventQueries == {"bugs", "failures", "pair_errors", "cli_failures"}

StatsField(q) ==
    CASE q = "bugs" -> "bugs"
      [] q = "failures" -> "failures"
      [] q = "pair_errors" -> "errors"
      [] q = "cli_failures" -> "cli"

\* the rows the store returned for query q in this request
Returned(q) == IF q \in failing THEN <<>> ELSE upstream[q]

\* the flat entry the specification gives row i of query q
EntryOf(q, i) ==
    [type |-> TypeOfQuery(q), timestamp |-> Returned(q)[i].timestamp,
     sessionId |-> Returned(q)[i].sessionId]

Malformed(ts) == ts.kind = "garbage"

NotMalformed(e) == ~Malformed(e.timestamp)

\* C12: in an answer of the errors endpoint, a returned event row whose
\* timestamp is a non-date string is an entry of the flat errors list, is
\* counted in the stats count of its type and its session in uniqueSessions,
\* and has no part in timeSeries: timeSeries is what the events without it
\* give, and the buckets count the events with a parsable timestamp only.
C12_MalformedTimestampKeptInList ==
    response.status = 200 =>
        /\ \A q \in EventQueries : \A i \in 1..Len(Returned(q)) :
              Malformed(Returned(q)[i].timestamp) =>
                /\ Cardinality({ k \in 1..Len(response.errors) :
                                    response.errors[k] = EntryOf(q, i) })
                      = Cardinality({ k \in 1..Len(Returned(q)) :
                                        EntryOf(q, k) = EntryOf(q, i) })
                /\ response.stats[StatsField(q)] = Len(Returned(q))
                /\ response.stats.uniqueSessions =
                      Cardinality(UNION { { Returned(r)[k].sessionId : k \in 1..Len(Returned(r)) }
                                          : r \in EventQueries })
        /\ response.timeSeries =
              build_time_series(SelectSeq(response.errors, NotMalformed), time_range,
                                response.stats.uniqueSessions,
                                StatList(Returned("session_stats")))
        /\ \A q \in EventQueries \ {"cli_failures"} :
              SumField(response.timeSeries, Plural(TypeOfQuery(q))) =
                  Cardinality({ i \in 1..Len(Returned(q)) :
                                  Parsable(Returned(q)[i].timestamp) })

C12_Witness ==
    /\ response.status = 200
    /\ Len(Returned("bugs")) = 2
    /\ Malformed(Returned("bugs")[1].timestamp)
    /\ Parsable(Returned("bugs")[2].timestamp)
    /\ Returned("bugs")[1].sessionId = "A"
    /\ Returned("bugs")[2].sessionId = "B"
    /\ Len(response.errors) = 2
    /\ response.errors[1].timestamp.kind = "garbage"
    /\ response.stats.bugs = 2
    /\ response.stats.uniqueSessions = 2
    /\ Len(response.timeSeries) = 1
    /\ response.timeSeries[1].bugs = 1

\* the entries of type ty in the flat list of the answer
EntriesOfType(ty) == SelectSeq(response.errors, LAMBDA e : e.type = ty)

\* C13: a failed upstream query counts as zero rows and never fails the
\* request: the endpoint answers 200 whatever queries fail; a failed query's
\* category has count 0 and no entry while every other category has the
\* count and the entries of its rows; and when all five fail the answer has
\* stats all 0, an empty errors list, an empty timeSeries and sessionTypes
\* all 0.
C13_QueryFailureIsZeroRows ==
    Answered =>
        /\ response.status = 200
        /\ \A q \in EventQueries :
              LET rows == IF q \in failing THEN <<>> ELSE upstream[q] IN
              /\ response.stats[StatsField(q)] = Len(rows)
              /\ EntriesOfType(TypeOfQuery(q)) =
                    [i \in 1..Len(rows) |->
                        [type |-> TypeOfQuery(q), timestamp |-> rows[i].timestamp,
                         sessionId |-> rows[i].sessionId]]
        /\ Len(response.errors) =
              SumInts([i \in 1..4 |->
                  IF QueriesInOrder[i] \in failing THEN 0 ELSE Len(upstream[QueriesInOrder[i]])])
        /\ response.sessionTypes["single"] + response.sessionTypes["extended"]
              + response.sessionTypes["handoff"]
              = (IF "session_stats" \in failing THEN 0 ELSE Len(upstream["session_stats"]))
        /\ failing = Queries =>
              /\ response.stats = [bugs |-> 0, failures |-> 0, errors |-> 0, cli |-> 0,
                                    uniqueSessions |-> 0]
              /\ response.errors = <<>>
              /\ response.timeSeries = <<>>
              /\ response.sessionTypes = [t \in {"single", "extended", "handoff"} |-> 0]

\* all five queries select a row and all five fail
C13_Witness ==
    /\ response.status = 200
    /\ failing = Queries
    /\ \A q \in Queries : upstream[q] # <<>>
    /\ response.errors = <<>>
    /\ response.timeSeries = <<>>

\* one query fails, the others answer
C13_WitnessPartial ==
    /\ response.status = 200
    /\ failing = {"failures"}
    /\ \A q \in Queries : upstream[q] # <<>>
    /\ response.stats = [bugs |-> 1, failures |-> 0, errors |-> 1, cli |-> 1,
                          uniqueSessions |-> 2]
    /\ response.sessionTypes["extended"] = 1

\* a session detail request has been answered
Served == requests >= 1

\* C14: the session detail endpoint answers the first result row with 200
\* when the lookup yields at least one row and the object
\* {error: 'Session not found'} with 404 otherwise; it never raises (no 500),
\* and a session id that no document has gets the not-found answer.
C14_SessionOrNotFound ==
    Served =>
        /\ session_response.status \in {200, 404}
        /\ (results.kind = "list" /\ Len(results.rows) >= 1) =>
              session_response = [status |-> 200, body |-> results.rows[1]]
        /\ (results.kind = "list" /\ Len(results.rows) = 0) =>
              session_response = [status |-> 404, body |-> NotFound]
        /\ session_id \notin documents =>
              session_response = [status |-> 404, body |-> NotFound]

\* C15: every upstream call is attempted once and the calls are sequential:
\* an errors request sends exactly the five queries bugs, operation failures,
\* pair errors, CLI failures, session stats, in that order, whichever of them
\* fail; a session detail request sends exactly one query; nothing else sends
\* a request.
C15_OneAttemptInOrder ==
    [][ /\ (response.status = 0 /\ response'.status # 0) =>
              outbound' = outbound \o
                  <<"bugs", "failures", "pair_errors", "cli_failures", "session_stats">>
        /\ requests' = requests + 1 => outbound' = outbound \o <<"session">>
        /\ (response'.status = response.status /\ requests' = requests) =>
              outbound' = outbound ]_vars

\* an errors request whose first and last queries fail, and two session
\* detail requests
C15_Witness ==
    /\ response.status # 0
    /\ failing = {"bugs", "session_stats"}
    /\ requests = 2
    /\ Len(outbound) = 7
    /\ Cardinality({ i \in 1..Len(outbound) : outbound[i] = "session" }) = 2

\* a viewSession call for sid starts in this step
Starts(sid) ==
    /\ Len(viewCalls') = Len(viewCalls) + 1
    /\ viewCalls'[Len(viewCalls')].sessionId = sid

\* C16: the session cache is never invalidated: an entry of sessionCache is
\* never removed or replaced, and a viewSession for an id that has an entry
\* sends no fetch and shows the stored response, the not-found object
\* included.
C16_CacheNeverInvalidated ==
    [][ \A sid \in DOMAIN sessionCache :
            /\ sid \in DOMAIN sessionCache'
            /\ sessionCache'[sid] = sessionCache[sid]
            /\ Starts(sid) =>
                  /\ fetched' = fetched
                  /\ currentSession' = sessionCache[sid]
                  /\ viewCalls'[Len(viewCalls')].session = sessionCache[sid] ]_vars

\* the part of C16 about a call that finds an entry: it sends no fetch,
\* leaves the cache as it is and shows the entry, the not-found object
\* included.
C16_CachedCallSendsNoFetch ==
    [][ \A sid \in DOMAIN sessionCache :
            Starts(sid) =>
                /\ fetched' = fetched
                /\ sessionCache' = sessionCache
                /\ currentSession' = sessionCache[sid]
                /\ viewCalls'[Len(viewCalls')].session = sessionCache[sid] ]_vars

C16_CachedNotFoundShown ==
    /\ Len(viewCalls) = 2
    /\ viewCalls[1].sessionId = viewCalls[2].sessionId
    /\ fetched = <<viewCalls[1].sessionId>>
    /\ viewCalls[2].pc = "done"
    /\ viewCalls[2].session = NotFound
    /\ currentSession = NotFound

\* the calls made are n apply_change calls followed by n rollback calls
RoundTrip(n) ==
    /\ Len(ops) = 2 * n
    /\ \A i \in 1..n : ops[i] = "apply_change"
    /\ \A i \in (n + 1)..(2 * n) : ops[i] = "rollback"

Divides(d, x) == IF x.e = 0 THEN x.m % d = 0 ELSE d = 2 \/ x.m % d = 0

\* d * d <= x
SquareAtMost(d, x) == IF x.e = 0 THEN d * d <= x.m ELSE TRUE

\* the divisors worth trying on the arguments of the model
Candidates(x) == IF x.e = 0 THEN 2..MaxN ELSE {2}

\* x is a prime number as C18 defines it
PrimeNumber(x) ==
    /\ ~LessThanTwo(x)
    /\ ~\E d \in Candidates(x) : SquareAtMost(d, x) /\ Divides(d, x)

\* C18: for every integer n, is_prime(n) returns, and returns True exactly
\* when n is prime: False for n < 2, False when some d with 2 <= d and
\* d * d <= n divides n, True otherwise.
C18_IsPrimeExact ==
    is_prime_result.kind # "none" =>
        /\ is_prime_result.kind = "returned"
        /\ is_prime_result.value = PrimeNumber(argument)

\* C18 for the integers a float holds: below 2^1024 is_prime(n) returns, and
\* on the arguments small enough to count with it returns True exactly for
\* the primes.
C18_IsPrimeWithinFloat ==
    (is_prime_result.kind # "none" /\ argument.e = 0) =>
        /\ is_prime_result.kind = "returned"
        /\ is_prime_result.value = PrimeNumber(argument)
        /\ is_prime_result.value = (argument.m >= 2 /\ \A d \in 2..(argument.m - 1) : argument.m % d # 0)

\* k! for k >= 0
RECURSIVE Product(_)
Product(k) == IF k <= 1 THEN 1 ELSE k * Product(k - 1)

\* C19: factorial(n) ends by returning for every integer n, and what it
\* returns is n! for n >= 0 (1 for n = 0 and n = 1); for n <= 1, negatives
\* included, it returns 1 and makes no recursive call.
C19_FactorialReturns ==
    /\ factorial_result.kind # "raised"
    /\ factorial_result.kind = "returned" =>
          factorial_result.value = (IF argument.m <= 1 THEN 1 ELSE Product(argument.m))
    /\ argument.m <= 1 => Len(frames) <= 1

\* C19 below the recursion limit: for the arguments whose frames fit under
\* the limit every run of factorial ends by returning.
C19_ReturnsWithinLimit ==
    (argument.m + CallerFrames <= RecursionLimit) => <>(factorial_result.kind = "returned")

\* C19 below the recursion limit: factorial does not raise, returns n! for
\* n >= 0 and 1 for n <= 1 without a recursive call.
C19_ValueWithinLimit ==
    (argument.m + CallerFrames <= RecursionLimit) =>
        /\ factorial_result.kind # "raised"
        /\ factorial_result.kind = "returned" =>
              factorial_result.value = (IF argument.m <= 1 THEN 1 ELSE Product(argument.m))
        /\ argument.m <= 1 => Len(frames) <= 1

\* the stretch of time the specification gives a bucket of the range: a
\* minute of an hour of a date, an hour of a date, or a calendar date
Granule(range, ts) ==
    CASE range = "hour" -> <<ts.y, ts.mo, ts.d, ts.h, ts.mi>>
      [] range = "day" -> <<ts.y, ts.mo, ts.d, ts.h, 0>>
      [] range \in {"week", "month", "all"} -> <<ts.y, ts.mo, ts.d, 0, 0>>

Granules == { Granule(time_range, errors[i].timestamp) : i \in 1..Len(errors) }

\* C20: a bucket is one minute (hour), one hour (day) or one calendar day
\* (week, month, all): events are counted in the same bucket only if they
\* fall in the same minute of the same hour of the same date, the same hour
\* of the same date, or the same calendar date including the year; so there
\* are as many buckets as there are such stretches with an event.
C20_BucketGranularity ==
    called =>
        /\ \A j \in 1..Len(result) : \A i1, i2 \in 1..Len(errors) :
              (CountedIn(i1, j) /\ CountedIn(i2, j)) =>
                  Granule(time_range, errors[i1].timestamp)
                      = Granule(time_range, errors[i2].timestamp)
        /\ Len(result) = Cardinality(Granules)

\* the request gave no usable rows: it failed, or its body is no JSON object
\* with an array under "results"
NoRows(reply) ==
    \/ reply.outcome = "network"
    \/ reply.status \notin 200..299
    \/ reply.body.kind # "object"
    \/ ~reply.body.has_results
    \/ reply.body.results.kind # "list"

QueryCalled == query_result.kind # "none"

\* C21: query_couchbase always returns a list and never raises: whatever the
\* request gave, the value returned is a list the callers can iterate, and
\* it is the empty list for a network failure, a non-2xx status, a non-JSON
\* body, a JSON body that is no object, an object without "results" and an
\* object whose "results" is null or no array.
C21_AlwaysReturnsList ==
    QueryCalled =>
        /\ query_result.kind = "returned"
        /\ query_result.value.kind = "list"
        /\ ~ForLoopRaises(query_result.value)
        /\ NoRows(http_reply) => query_result.value = ResultsList(<<>>)

\* the part of C21 that holds: query_couchbase never raises, and returns
\* the array under "results" or [] unless the body is a JSON object whose
\* "results" is present and no array.
C21_ListUnlessResultsNotArray ==
    QueryCalled =>
        /\ query_result.kind = "returned"
        /\ (http_reply.body.has_results /\ http_reply.body.results.kind # "list")
              \/ query_result.value.kind = "list"
        /\ (NoRows(http_reply) /\ ~http_reply.body.has_results) =>
              query_result.value = ResultsList(<<>>)

\* a 200 answer whose "results" is null: the call returns None
C21_NullReturned ==
    /\ QueryCalled
    /\ http_reply.status = 200
    /\ http_reply.body.results = ResultsNull
    /\ query_result.value = ResultsNull
    /\ ForLoopRaises(query_result.value)

\* the rows the store returned carry one of the defects named
NullTimestampAmongOthers ==
    /\ Len(Flattened(failing)) >= 2
    /\ \E i \in 1..Len(Flattened(failing)) : Flattened(failing)[i].timestamp.kind = "null"

NullCommand ==
    \E i \in 1..Len(Returned("cli_failures")) :
        Returned("cli_failures")[i].command = JNull

BadExtension ==
    \E i \in 1..Len(Returned("session_stats")) :
        ~WellFormedExt(Returned("session_stats")[i])

\* C22: per-record defects never fail the errors endpoint: whatever rows the
\* store returns (a null timestamp among string timestamps, a CLI row with a
\* null command, a SessionStat whose extensionInfo is no record or whose
\* currentExtension is null or no number), the request is answered with its
\* JSON response, status 200, and no exception.
C22_DefectsNeverFail ==
    Answered =>
        /\ response.status = 200
        /\ Len(response.errors) = Len(Flattened(failing))

\* what holds of the rows with defects: the request fails exactly when a
\* null timestamp stands among two or more entries, a CLI command is null,
\* or a SessionStat's extension metadata is malformed; a lone entry with a
\* null timestamp is listed and left out of timeSeries.
C22_FailsExactlyOnDefect ==
    Answered =>
        /\ response.status \in {200, 500}
        /\ response.status = 500 <=> (NullTimestampAmongOthers \/ NullCommand \/ BadExtension)
        /\ response.status = 200 => Len(response.errors) = Len(Flattened(failing))

\* a bug with a null timestamp and a failure with a string timestamp
C22_NullTimestampFails ==
    /\ response.status = 500
    /\ Len(upstream["bugs"]) = 1 /\ upstream["bugs"][1].timestamp = NullTimestamp
    /\ Len(upstream["failures"]) = 1 /\ upstream["failures"][1].timestamp.kind = "iso"
    /\ upstream["cli_failures"] = <<>>
    /\ upstream["session_stats"] = <<>>

\* every call was made on the one document d
OnlyOn(d) == \A k \in 1..Len(log) : log[k].doc = d

\* the positions of the apply_change calls among the first k calls that no
\* rollback has undone yet, oldest first: a rollback undoes the most recent
\* of them, if there is one
RECURSIVE Pending(_)
Pending(k) ==
    IF k = 0 THEN <<>>
    ELSE LET p == Pending(k - 1)
         IN  IF log[k].op = "apply_change" THEN Append(p, k)
             ELSE IF p = <<>> THEN p ELSE SubSeq(p, 1, Len(p) - 1)

\* the rollback calls that found a history that was not empty
EffectiveRollbacks == { k \in 1..Len(log) : log[k].op = "rollback" /\ Pending(k - 1) # <<>> }

ApplyChanges == { k \in 1..Len(log) : log[k].op = "apply_change" }

\* C23: over any interleaving of apply_change and rollback on one document,
\* a rollback with a non-empty history returns the document state that
\* existed immediately before the most recent apply_change not yet rolled
\* back, and the history length is the number of apply_change calls minus
\* the number of rollbacks that found a non-empty history, never negative.
C23_RollbackIsLifo ==
    (\E d \in DocNames : OnlyOn(d)) =>
        /\ Len(history_refs) = Cardinality(ApplyChanges) - Cardinality(EffectiveRollbacks)
        /\ Len(history_refs) = Len(Pending(Len(log)))
        /\ \A k \in EffectiveRollbacks :
              LET p == Pending(k - 1)
              IN  log[k].after = log[p[Len(p)]].before

\* two changes, then two rollbacks: the second rollback returns the state
\* before the first change, not the one before the second
C23_Witness ==
    /\ OnlyOn("a")
    /\ Len(log) = 4
    /\ log[1].op = "apply_change" /\ log[2].op = "apply_change"
    /\ log[3].op = "rollback" /\ log[4].op = "rollback"
    /\ log[1].before # log[2].before
    /\ log[3].after = log[2].before
    /\ log[4].after = log[1].before
    /\ objects[refs["a"]] = log[1].before
    /\ history_refs = <<>>

\* the calls in `made` are n apply_change calls followed by m rollback calls
ChangesThenRollbacks(made, n, m) ==
    /\ Len(made) = n + m
    /\ \A i \in 1..n : made[i].op = "apply_change"
    /\ \A i \in (n + 1)..(n + m) : made[i].op = "rollback"

\* more rollbacks than changes
OverRolled(made) ==
    \E n \in 0..MaxOps, m \in 1..MaxOps : n < m /\ ChangesThenRollbacks(made, n, m)

\* C24: rollback on an empty history is a no-op: it returns the document it
\* was given (the same object, its contents unchanged) and leaves the
\* history empty, without an error; so after more rollbacks than changes on
\* a document it is at its original state.
C24_EmptyRollbackIsNoOp ==
    [][ /\ (history_refs = <<>> /\ Len(log') = Len(log) + 1 /\ log'[Len(log')].op = "rollback") =>
              /\ log'[Len(log')].ret = log'[Len(log')].arg
              /\ log'[Len(log')].after = log'[Len(log')].before
              /\ objects' = objects
              /\ refs' = refs
              /\ history_refs' = <<>>
        /\ \A d \in DocNames :
              (OverRolled(log') /\ \A k \in 1..Len(log') : log'[k].doc = d) =>
                  /\ objects'[refs'[d]] = log'[1].before
                  /\ history_refs' = <<>> ]_vars

\* one change to the two-function document, then two rollbacks: the second
\* finds the history empty
C24_Witness ==
    /\ OnlyOn("a")
    /\ ChangesThenRollbacks(log, 1, 2)
    /\ DOMAIN log[1].before = {"func1", "func2"}
    /\ log[3].ret = log[3].arg
    /\ objects[refs["a"]] = log[1].before
    /\ objects[refs["a"]] # log[1].after
    /\ history_refs = <<>>

\* the objects in the sequence of references s
Referenced(s) == { s[i] : i \in 1..Len(s) }

\* C25: history snapshots are isolated from the live documents: an entry
\* that stays in the history is the same object with the same contents after
\* any call (apply_change changes the document in place, not the copy), each
\* entry holds the contents the document had when save_state saved it, and
\* no variable of the caller (in particular the one a rollback has just
\* returned into) names an object that is an entry of the history.
C25_SnapshotsIsolated ==
    [][ /\ \A i \in 1..Len(history_refs) :
              i <= Len(history_refs') =>
                  /\ history_refs'[i] = history_refs[i]
                  /\ objects'[history_refs[i]] = objects[history_refs[i]]
        /\ \A k \in 1..Len(log') :
              log'[k].saved \in Referenced(history_refs') =>
                  objects'[log'[k].saved] = log'[k].before
        /\ \A d \in DocNames : refs'[d] \notin Referenced(history_refs')
        /\ Cardinality(Referenced(history_refs')) = Len(history_refs') ]_vars

\* two changes, a rollback, and a change to the document the rollback
\* returned: the first snapshot still holds the first state
C25_Witness ==
    /\ OnlyOn("a")
    /\ Len(log) = 4
    /\ log[1].op = "apply_change" /\ log[2].op = "apply_change"
    /\ log[3].op = "rollback" /\ log[4].op = "apply_change"
    /\ log[3].ret = log[2].saved
    /\ log[4].arg = log[3].ret
    /\ objects[log[4].arg] # log[3].after
    /\ Len(history_refs) = 2
    /\ history_refs[1] = log[1].saved
    /\ objects[history_refs[1]] = log[1].before
    /\ objects[history_refs[1]] # objects[refs["a"]]

\* the objects save_state appended while the call was on document d
SavedFrom(d) == { log[j].saved : j \in { j \in 1..Len(log) : log[j].op = "apply_change" /\ log[j].doc = d } }

\* C26: rollback(doc) returns an earlier state of the document it is called
\* with: with calls on two documents interleaved, what a rollback of one
\* document returns is that document itself or a state saved from it, never
\* a state saved from the other document.
C26_RollbackOfOwnDocument ==
    \A k \in 1..Len(log) :
        log[k].op = "rollback" =>
            /\ log[k].ret = log[k].arg \/ log[k].ret \in SavedFrom(log[k].doc)
            /\ \A d \in DocNames \ {log[k].doc} : log[k].ret \notin SavedFrom(d)

\* the part of C26 that holds: while every call is on one document, a
\* rollback returns that document or a state saved from it.
C26_OwnDocumentWhenAlone ==
    \A k \in 1..Len(log) :
        (log[k].op = "rollback" /\ \A j \in 1..k : log[j].doc = log[k].doc) =>
            log[k].ret = log[k].arg \/ log[k].ret \in SavedFrom(log[k].doc)

\* a change to a, then a rollback of b: b becomes what a was
C26_OtherDocumentReturned ==
    /\ Len(log) = 2
    /\ log[1].op = "apply_change" /\ log[1].doc = "a"
    /\ log[2].op = "rollback" /\ log[2].doc = "b"
    /\ log[2].before = OtherDocument
    /\ log[2].after = log[1].before
    /\ objects[refs["b"]] = log[1].before

\* the type of entry each stats counter counts
TypeCounted(field) ==
    CASE field = "bugs" -> "bug"
      [] field = "failures" -> "failure"
      [] field = "errors" -> "error"
      [] field = "cli" -> "cli"

CountOfType(ty) == Cardinality({ k \in 1..Len(response.errors) : response.errors[k].type = ty })

\* C27: in an answer of the errors endpoint, stats.bugs, stats.failures,
\* stats.errors and stats.cli are the numbers of entries of type bug,
\* failure, error and cli in errors, their sum is the length of errors, and
\* stats.uniqueSessions is the number of distinct sessionId values among the
\* entries of errors.
C27_StatsAgreeWithErrors ==
    response.status = 200 =>
        /\ \A field \in {"bugs", "failures", "errors", "cli"} :
              response.stats[field] = CountOfType(TypeCounted(field))
        /\ response.stats.bugs + response.stats.failures + response.stats.errors
              + response.stats.cli = Len(response.errors)
        /\ response.stats.uniqueSessions =
              Cardinality({ response.errors[k].sessionId : k \in 1..Len(response.errors) })

\* one row of each kind from two sessions, the failures query failing
C27_Witness ==
    /\ response.status = 200
    /\ failing = {"failures"}
    /\ upstream["failures"] # <<>>
    /\ response.stats = [bugs |-> 1, failures |-> 0, errors |-> 1, cli |-> 1,
                          uniqueSessions |-> 2]
    /\ Len(response.errors) = 3
    /\ CountOfType("cli") = 1

\* the session ids the answer's sessionTypeMap maps to category t
MappedTo(t) == { sid \in DOMAIN response.sessionTypeMap : response.sessionTypeMap[sid] = t }

\* C28: sessionTypes and sessionTypeMap agree: each category's count in
\* sessionTypes is the number of session ids the map gives that category,
\* and the map has one entry per SessionStat, also when two SessionStats
\* carry the same id.
C28_TypesAgreeWithMap ==
    response.status = 200 =>
        /\ \A t \in {"single", "extended", "handoff"} :
              response.sessionTypes[t] = Cardinality(MappedTo(t))
        /\ Cardinality(DOMAIN response.sessionTypeMap) = Len(Classified)

DistinctIds ==
    \A i, j \in 1..Len(Classified) : i # j => Classified[i].id # Classified[j].id

\* the part of C28 that holds: counts and map agree when no two
\* SessionStats carry the same id.
C28_AgreeWhenIdsDistinct ==
    (response.status = 200 /\ DistinctIds) =>
        /\ \A t \in {"single", "extended", "handoff"} :
              response.sessionTypes[t] = Cardinality(MappedTo(t))
        /\ Cardinality(DOMAIN response.sessionTypeMap) = Len(Classified)

\* two SessionStats of id A, the first extended, the second single
C28_DuplicateIdOverwritten ==
    /\ response.status = 200
    /\ Len(Classified) = 2
    /\ Classified[1].id = "A" /\ Classified[2].id = "A"
    /\ response.sessionTypes["extended"] = 1
    /\ response.sessionTypes["single"] = 1
    /\ DOMAIN response.sessionTypeMap = {"A"}
    /\ response.sessionTypeMap["A"] = "single"

\* every viewSession call made has run to its end
AllCompleted == viewCalls # <<>> /\ \A k \in 1..Len(viewCalls) : viewCalls[k].pc # "fetch"

LastCall == viewCalls[Len(viewCalls)]

\* two calls for one id are waiting for their fetch at once
TwoFetchesInFlight ==
    \E i, j \in 1..Len(viewCalls) :
        /\ i < j
        /\ viewCalls[i].sessionId = viewCalls[j].sessionId
        /\ viewCalls[i].pc = "fetch" /\ viewCalls[j].pc = "fetch"

\* C29: once overlapping viewSession calls have all completed, the modal
\* shows the session requested last: the header names the last call's id,
\* and currentSession and the rendered content are the session that call
\* obtained, whatever the order in which the fetches resolved; and two
\* overlapping calls for one uncached id send a single fetch.
C29_LastRequestedShown ==
    /\ (AllCompleted /\ LastCall.pc = "done") =>
          /\ modalSessionId = LastCall.sessionId
          /\ currentSession = LastCall.session
          /\ rendered = Shown(LastCall.session)
    /\ ~TwoFetchesInFlight

\* the header always names the id of the call started last
C29_HeaderIsLastRequested ==
    viewCalls # <<>> => modalSessionId = LastCall.sessionId

\* viewSession(A), viewSession(B), the fetch of B resolves, then the fetch
\* of A: the header says B and the content is A's
C29_StaleSessionShown ==
    /\ Len(viewCalls) = 2
    /\ viewCalls[1].sessionId = "A" /\ viewCalls[2].sessionId = "B"
    /\ fetched = <<"A", "B">>
    /\ AllCompleted
    /\ viewCalls[2].session = Document("B")
    /\ modalSessionId = "B"
    /\ currentSession = Document("A")
    /\ rendered = Shown(Document("A"))

\* the lists that hold the entries of s in another order
Reorderings(s) == { [i \in 1..Len(s) |-> s[f[i]]] : f \in Permutations(1..Len(s)) }

\* the SessionStats argument with its rows in another order (None as it is)
StatsReorderings(stats) ==
    IF stats.none THEN {stats} ELSE { StatList(rows) : rows \in Reorderings(stats.rows) }

\* values of total_sessions
Totals == 0..2

\* C30: the output of build_time_series does not depend on the order of its
\* inputs or on total_sessions: every permutation of the events list and of
\* the SessionStats list, with any total_sessions, gives the same list of
\* bucket summaries in the same order.
C30_OrderIndependent ==
    called =>
        \A events \in Reorderings(errors), stats \in StatsReorderings(session_stats),
           total \in Totals :
            build_time_series(events, time_range, total, stats) = result

\* two events of different buckets and two SessionStats of one bucket, one
\* with a null tokensIn, the other with a tokensOut that is no number
C30_Witness ==
    /\ called
    /\ Len(errors) = 2 /\ errors[1].timestamp # errors[2].timestamp
    /\ errors[1].timestamp = Iso(2023, 12, 31, 23, 59)
    /\ ~session_stats.none /\ Len(session_stats.rows) = 2
    /\ session_stats.rows[1].tokensIn = JNull
    /\ session_stats.rows[2].tokensOut = JStr
    /\ Len(result) = 2
    /\ result[1].period = ClaimLabel(time_range, errors[2].timestamp)
    /\ result[1].tokensIn = 1000
    /\ result[1].tokensOut = 300

====
